---- MODULE Spec2Model ----
(***************************************************************************)
(* A model of the trading-bot backend: the market-data fan-out service     *)
(* (api/v1/endpoints/websockets.py), the bot scheduler (main.py) and the   *)
(* order executor (core/trade_executor.py).                                *)
(*                                                                         *)
(* The fan-out service runs on one asyncio event loop: a coroutine runs    *)
(* without interruption from one await that suspends to the next, so each  *)
(* action below is the code between two suspension points.                 *)
(***************************************************************************)
EXTENDS Integers, Sequences, FiniteSets, TLC

(***************************************************************************)
(* Bounds.                                                                 *)
(***************************************************************************)
\* Number of websocket connections, numbered in the order the server accepts
\* them (each connects once and is never reused).
NumClients == 3

Clients == 1 .. NumClients

\* A listener task is identified by the websocket whose handler created it.
TaskIds == Clients

\* Path parameters clients may connect with, in any letter case.
RawSymbols == {"btcusdt", "BTCUSDT", "ETHUSDT"}

\* str.upper() on the symbols above.
Upper(s) == IF s = "btcusdt" THEN "BTCUSDT" ELSE s

Symbols == {Upper(s) : s \in RawSymbols}

VARIABLES
    active_connections,     \* manager.active_connections: symbol key -> set of websockets
    binance_socket_tasks,   \* symbol key -> listener task
    async_binance_client,   \* "None" or "client"
    api_keys,               \* settings: are the API keys configured
    hpc,                    \* websocket_endpoint position, per websocket
    hsym,                   \* its symbol_upper
    wsOpen,                 \* the websocket is accepted and neither side closed it
    closeCode,              \* code the server closed the websocket with (0: none)
    tpc,                    \* binance_websocket_listener position, per task
    tsym,                   \* its symbol_upper
    must_cancel,            \* Task.cancel() was called and not yet delivered
    bcast,                  \* per task: the broadcast_to_symbol call in progress
    ignored,                \* the tasks that ignored the last message they received
    symbol_info_cache,      \* trade_executor.symbol_info_cache: symbol -> trading rules
    xin,                    \* an execute_trade call: its arguments and what the world answers
    xout,                   \* its outcome (None before the call)
    now,                    \* the clock, in seconds since scheduler.start()
    next_run_time,          \* the job's next fire time
    instances,              \* the executor's count of submitted, unfinished runs of the job
    pending,                \* run times of job tasks created and not yet started
    missed,                 \* run times skipped as misfires
    tick_runs,              \* the runs of run_active_bots_job: run time, start, ended
    binance_client,         \* binance_client.client: "client" or "None"
    job_pc,                 \* run_active_bots_job: "idle" or "loop" (inside for bot in active_bots)
    active_bots,            \* the bots the running (or last) tick fetched
    bot_log,                \* what the tick did for each bot it reached
    db_session,             \* the tick's session: "closed", "open", "expired" (after a commit)
    tick_error,             \* the tick ended in the outer except of line 108
    exchange_orders,        \* create_order calls the exchange got since the last tick started
    trade_history,          \* trade_history rows written since the last tick started
    dca_emitted,            \* DCA_BUY actions the ticks got: bot id and the tick's place in tick_runs
    adj_in,                 \* adjust_quantity_to_step_size: quantity and step size
    adj_out,                \* what it returned (None before the call)
    grid_config,            \* a grid bot's settings
    grid_evals,             \* its last two evaluations: price and actions
    engine_call,            \* a call of a strategy function: its name, arguments and market
    engine_result,          \* what it returned (None before the call)
    info_log                \* the get_symbol_info calls made so far, in order

fanVars == <<active_connections, binance_socket_tasks, async_binance_client, api_keys,
             hpc, hsym, wsOpen, closeCode, tpc, tsym, must_cancel, bcast, ignored>>

execVars == <<symbol_info_cache, xin, xout>>

schedVars == <<now, next_run_time, instances, pending, missed, tick_runs, binance_client,
               job_pc, active_bots, bot_log, db_session, tick_error>>

\* What the ticks left at the exchange and in the store.
ledgerVars == <<exchange_orders, trade_history, dca_emitted>>

\* The calls of the pure functions.
pureVars == <<adj_in, adj_out, grid_config, grid_evals, engine_call, engine_result, info_log>>

\* Everything outside the websocket fan-out.
nonFanVars == <<execVars, schedVars, ledgerVars, pureVars>>

vars == <<fanVars, execVars, schedVars, ledgerVars, pureVars>>

NoBroadcast == [snapshot |-> {}, pending |-> {}, delivered |-> {}, failed |-> {}]

(***************************************************************************)
(* ConnectionManager                                                       *)
(***************************************************************************)
\* connect, after websocket.accept(): create the key if absent, add the websocket.
ManagerConnect(conns, c, s) ==
    IF s \in DOMAIN conns
    THEN [conns EXCEPT ![s] = @ \cup {c}]
    ELSE [k \in DOMAIN conns \cup {s} |-> IF k = s THEN {c} ELSE conns[k]]

\* A faulty disconnect: it leaves the key of a set that became empty.
DisconnectKeepsKey(conns, c, s) ==
    IF s \in DOMAIN conns /\ c \in conns[s]
    THEN [conns EXCEPT ![s] = @ \ {c}]
    ELSE conns

\* disconnect: remove the websocket; delete the key when its set becomes empty;
\* a websocket that is not in the set (KeyError) changes nothing.
ManagerDisconnect(conns, c, s) ==
    IF s \in DOMAIN conns /\ c \in conns[s]
    THEN IF conns[s] \ {c} = {}
         THEN [k \in DOMAIN conns \ {s} |-> conns[k]]
         ELSE [conns EXCEPT ![s] = @ \ {c}]
    ELSE conns

\* Task.done()
TaskDone(t) == tpc[t] \in {"done_cancel", "done_error"}

\* del binance_socket_tasks[s]
DelTask(tasks, s) == [k \in DOMAIN tasks \ {s} |-> tasks[k]]

\* binance_socket_tasks[s] = t
PutTask(tasks, s, t) == [k \in DOMAIN tasks \cup {s} |-> IF k = s THEN t ELSE tasks[k]]

FanInit ==
    /\ active_connections = << >>
    /\ binance_socket_tasks = << >>
    \* lifespan: get_async_binance_client() at startup; a failure is logged and
    \* the application starts without the client.
    /\ \E k \in BOOLEAN, ok \in BOOLEAN :
          /\ api_keys = k
          /\ async_binance_client = IF k /\ ok THEN "client" ELSE "None"
    /\ hpc = [c \in Clients |-> "idle"]
    /\ hsym = [c \in Clients |-> "-"]
    /\ wsOpen = [c \in Clients |-> FALSE]
    /\ closeCode = [c \in Clients |-> 0]
    /\ tpc = [t \in TaskIds |-> "none"]
    /\ tsym = [t \in TaskIds |-> "-"]
    /\ must_cancel = [t \in TaskIds |-> FALSE]
    /\ bcast = [t \in TaskIds |-> NoBroadcast]
    /\ ignored = {}

(***************************************************************************)
(* websocket_endpoint: one handler per websocket.                          *)
(***************************************************************************)
\* Lines 138-144 with the client at hand: asyncio.create_task and the registry
\* write happen with no suspension in between.
CreateListener(c) ==
    /\ tpc' = [tpc EXCEPT ![c] = "created"]
    /\ tsym' = [tsym EXCEPT ![c] = hsym'[c]]
    /\ binance_socket_tasks' = PutTask(binance_socket_tasks, hsym'[c], c)

\* The test of line 138, evaluated before the handler's first suspension.
NeedsListener(s) ==
    s \notin DOMAIN binance_socket_tasks \/ TaskDone(binance_socket_tasks[s])

\* Lines 134-156, from the completion of websocket.accept() to the next
\* suspension: register the subscriber, then start a listener if none is
\* registered (or the registered one is done).
Subscribe(c, raw) ==
    /\ hpc[c] = "idle"
    /\ \A d \in Clients : d < c => hpc[d] # "idle"
    /\ hsym' = [hsym EXCEPT ![c] = Upper(raw)]
    /\ wsOpen' = [wsOpen EXCEPT ![c] = TRUE]
    /\ active_connections' = ManagerConnect(active_connections, c, Upper(raw))
    /\ IF NeedsListener(Upper(raw))
       THEN IF async_binance_client # "None"
            THEN \* get_async_binance_client returns without suspending
                 /\ CreateListener(c)
                 /\ hpc' = [hpc EXCEPT ![c] = "receive"]
            ELSE IF ~api_keys
            THEN \* ValueError (line 76): await websocket.close(code=1011)
                 /\ hpc' = [hpc EXCEPT ![c] = "close"]
                 /\ UNCHANGED <<tpc, tsym, binance_socket_tasks>>
            ELSE \* suspended in AsyncClient.create (line 79)
                 /\ hpc' = [hpc EXCEPT ![c] = "get_client"]
                 /\ UNCHANGED <<tpc, tsym, binance_socket_tasks>>
       ELSE /\ hpc' = [hpc EXCEPT ![c] = "receive"]
            /\ UNCHANGED <<tpc, tsym, binance_socket_tasks>>
    /\ UNCHANGED <<async_binance_client, api_keys, closeCode, must_cancel, bcast>>
    /\ UNCHANGED <<ignored, nonFanVars>>

\* AsyncClient.create returned: line 79 sets the global, lines 143-144 create and
\* register the task, whatever the registry holds by now.
ClientCreated(c) ==
    /\ hpc[c] = "get_client"
    /\ async_binance_client' = "client"
    /\ hpc' = [hpc EXCEPT ![c] = "receive"]
    /\ tpc' = [tpc EXCEPT ![c] = "created"]
    /\ tsym' = [tsym EXCEPT ![c] = hsym[c]]
    /\ binance_socket_tasks' = PutTask(binance_socket_tasks, hsym[c], c)
    /\ UNCHANGED <<active_connections, api_keys, hsym, wsOpen, closeCode, must_cancel, bcast>>
    /\ UNCHANGED <<ignored, nonFanVars>>

\* AsyncClient.create raised (lines 150-152): await websocket.close(code=1011).
ClientCreateFailed(c) ==
    /\ hpc[c] = "get_client"
    /\ hpc' = [hpc EXCEPT ![c] = "close"]
    /\ UNCHANGED <<active_connections, binance_socket_tasks, async_binance_client, api_keys,
                   hsym, wsOpen, closeCode, tpc, tsym, must_cancel, bcast>>
    /\ UNCHANGED <<ignored, nonFanVars>>

\* A faulty handler: it returns without the manager.disconnect call.
ReturnsRegistered(conns, c, s) == conns

\* Lines 148 and 153: manager.disconnect(websocket, symbol_upper) before the
\* handler returns.
DisconnectOnFailure(conns, c, s) == ManagerDisconnect(conns, c, s)

\* websocket.close(code=1011) returned: manager.disconnect and return
\* (lines 147-149, 152-154).
CloseDone(c) ==
    /\ hpc[c] = "close"
    /\ wsOpen' = [wsOpen EXCEPT ![c] = FALSE]
    /\ closeCode' = [closeCode EXCEPT ![c] = 1011]
    /\ active_connections' = DisconnectOnFailure(active_connections, c, hsym[c])
    /\ hpc' = [hpc EXCEPT ![c] = "done"]
    /\ hsym' = [hsym EXCEPT ![c] = "-"]
    /\ UNCHANGED <<binance_socket_tasks, async_binance_client, api_keys,
                   tpc, tsym, must_cancel, bcast>>
    /\ UNCHANGED <<ignored, nonFanVars>>

\* The peer goes away (any time after accept).
ClientGone(c) ==
    /\ wsOpen[c]
    /\ hpc[c] \in {"get_client", "receive"}
    /\ wsOpen' = [wsOpen EXCEPT ![c] = FALSE]
    /\ UNCHANGED <<active_connections, binance_socket_tasks, async_binance_client, api_keys,
                   hpc, hsym, closeCode, tpc, tsym, must_cancel, bcast>>
    /\ UNCHANGED <<ignored, nonFanVars>>

\* Lines 171-178: should the finally block cancel / unregister the listener.
LastSubscriberLeft(conns, s) ==
    s \notin DOMAIN conns /\ s \in DOMAIN binance_socket_tasks

\* websocket.receive_text() raised WebSocketDisconnect (or another exception):
\* manager.disconnect, then the finally block (lines 165-178).
Unsubscribe(c) ==
    /\ hpc[c] = "receive"
    /\ ~wsOpen[c]
    /\ active_connections' = ManagerDisconnect(active_connections, c, hsym[c])
    /\ IF LastSubscriberLeft(active_connections', hsym[c])
       THEN /\ must_cancel' =
                 IF ~TaskDone(binance_socket_tasks[hsym[c]])
                 THEN [must_cancel EXCEPT ![binance_socket_tasks[hsym[c]]] = TRUE]
                 ELSE must_cancel
            /\ binance_socket_tasks' = DelTask(binance_socket_tasks, hsym[c])
       ELSE UNCHANGED <<must_cancel, binance_socket_tasks>>
    /\ hpc' = [hpc EXCEPT ![c] = "done"]
    /\ hsym' = [hsym EXCEPT ![c] = "-"]
    /\ UNCHANGED <<async_binance_client, api_keys, wsOpen, closeCode, tpc, tsym, bcast>>
    /\ UNCHANGED <<ignored, nonFanVars>>

(***************************************************************************)
(* binance_websocket_listener: one task per create_task call.              *)
(***************************************************************************)
\* The finally block (lines 121-125): the registry entry of the task's symbol
\* is deleted if there is one, whichever task it names.
ListenerFinally(tasks, s) == IF s \in DOMAIN tasks THEN DelTask(tasks, s) ELSE tasks

\* First step of the task. A task cancelled before its first step never runs
\* its coroutine (no finally). Otherwise lines 93-101: the client exists (the
\* handler obtained it on line 142), and the task suspends opening the stream.
ListenerStart(t) ==
    /\ tpc[t] = "created"
    /\ IF must_cancel[t]
       THEN /\ tpc' = [tpc EXCEPT ![t] = "done_cancel"]
            /\ tsym' = [tsym EXCEPT ![t] = "-"]
            /\ must_cancel' = [must_cancel EXCEPT ![t] = FALSE]
       ELSE /\ tpc' = [tpc EXCEPT ![t] = "connect"]
            /\ UNCHANGED <<must_cancel, tsym>>
    /\ UNCHANGED <<active_connections, binance_socket_tasks, async_binance_client, api_keys,
                   hpc, hsym, wsOpen, closeCode, bcast>>
    /\ UNCHANGED <<ignored, nonFanVars>>

\* symbol_ticker_socket entered (line 101): await stream.recv().
StreamOpened(t) ==
    /\ tpc[t] = "connect"
    /\ ~must_cancel[t]
    /\ tpc' = [tpc EXCEPT ![t] = "recv"]
    /\ UNCHANGED <<active_connections, binance_socket_tasks, async_binance_client, api_keys,
                   hpc, hsym, wsOpen, closeCode, tsym, must_cancel, bcast>>
    /\ UNCHANGED <<ignored, nonFanVars>>

\* Opening the stream raised (lines 119-125): the listener logs, runs its
\* finally block and ends.
StreamOpenFailed(t) ==
    /\ tpc[t] = "connect"
    /\ ~must_cancel[t]
    /\ tpc' = [tpc EXCEPT ![t] = "done_error"]
    /\ tsym' = [tsym EXCEPT ![t] = "-"]
    /\ binance_socket_tasks' = ListenerFinally(binance_socket_tasks, tsym[t])
    /\ UNCHANGED <<active_connections, async_binance_client, api_keys,
                   hpc, hsym, wsOpen, closeCode, must_cancel, bcast>>
    /\ UNCHANGED <<ignored, nonFanVars>>

\* broadcast_to_symbol lines 42-48: one send_text coroutine per websocket
\* registered for the symbol at this moment.
BroadcastTargets(conns, s) == IF s \in DOMAIN conns THEN conns[s] ELSE {}

\* stream.recv() returned a message (lines 104-109). A message carrying
\* 'stream' is broadcast; any other message is ignored.
RecvMessage(t, hasStream) ==
    /\ tpc[t] = "recv"
    /\ ~must_cancel[t]
    /\ ignored' = IF hasStream THEN ignored \ {t} ELSE ignored \cup {t}
    /\ IF hasStream /\ BroadcastTargets(active_connections, tsym[t]) # {}
       THEN /\ tpc' = [tpc EXCEPT ![t] = "gather"]
            /\ bcast' = [bcast EXCEPT ![t] =
                            [snapshot |-> BroadcastTargets(active_connections, tsym[t]),
                             pending |-> BroadcastTargets(active_connections, tsym[t]),
                             delivered |-> {}, failed |-> {}]]
       ELSE UNCHANGED <<tpc, bcast>>
    /\ UNCHANGED <<active_connections, binance_socket_tasks, async_binance_client, api_keys,
                   hpc, hsym, wsOpen, closeCode, tsym, must_cancel>>
    /\ UNCHANGED nonFanVars

\* stream.recv() raised (lines 113-115): await asyncio.sleep(5).
RecvError(t) ==
    /\ tpc[t] = "recv"
    /\ ~must_cancel[t]
    /\ tpc' = [tpc EXCEPT ![t] = "sleep"]
    /\ UNCHANGED <<active_connections, binance_socket_tasks, async_binance_client, api_keys,
                   hpc, hsym, wsOpen, closeCode, tsym, must_cancel, bcast>>
    /\ UNCHANGED <<ignored, nonFanVars>>

\* asyncio.sleep(5) returned: the loop calls recv() again on the same stream.
SleepDone(t) ==
    /\ tpc[t] = "sleep"
    /\ ~must_cancel[t]
    /\ tpc' = [tpc EXCEPT ![t] = "recv"]
    /\ UNCHANGED <<active_connections, binance_socket_tasks, async_binance_client, api_keys,
                   hpc, hsym, wsOpen, closeCode, tsym, must_cancel, bcast>>
    /\ UNCHANGED <<ignored, nonFanVars>>

\* A faulty gather: a failing send abandons the sends still pending.
AbortOnSendFailure(sends) == {}

\* asyncio.gather(*tasks, return_exceptions=True), line 54: a send that raises
\* leaves the other sends running.
AfterSendFailure(sends) == sends

\* One send_text of the gather completes: it delivers when the websocket is
\* open and raises when it is not.
Deliver(t, c) ==
    /\ tpc[t] = "gather"
    /\ ~must_cancel[t]
    /\ c \in bcast[t].pending
    /\ bcast' = [bcast EXCEPT ![t] =
                    IF wsOpen[c]
                    THEN [@ EXCEPT !.pending = @ \ {c}, !.delivered = @ \cup {c}]
                    ELSE [@ EXCEPT !.pending = AfterSendFailure(@ \ {c}),
                                   !.failed = @ \cup {c}]]
    /\ UNCHANGED <<active_connections, binance_socket_tasks, async_binance_client, api_keys,
                   hpc, hsym, wsOpen, closeCode, tpc, tsym, must_cancel>>
    /\ UNCHANGED <<ignored, nonFanVars>>

\* Lines 44-51: a websocket is added to disconnected_clients when creating its
\* send_text coroutine raises. Creating a coroutine runs none of its code, so
\* no send failure is seen there: the failures surface in gather, which
\* returns them as values that are dropped.
DisconnectedClients(b) == {}

RECURSIVE DisconnectAll(_, _, _)
\* Lines 57-58: manager.disconnect for each client of disconnected_clients.
DisconnectAll(conns, cs, s) ==
    IF cs = {} THEN conns
    ELSE LET c == CHOOSE x \in cs : TRUE
         IN DisconnectAll(ManagerDisconnect(conns, c, s), cs \ {c}, s)

\* gather returned (lines 54-58): clean up, return to the loop, await recv().
GatherDone(t) ==
    /\ tpc[t] = "gather"
    /\ ~must_cancel[t]
    /\ bcast[t].pending = {}
    /\ active_connections' =
           DisconnectAll(active_connections, DisconnectedClients(bcast[t]), tsym[t])
    /\ tpc' = [tpc EXCEPT ![t] = "recv"]
    /\ bcast' = [bcast EXCEPT ![t] = NoBroadcast]
    /\ UNCHANGED <<binance_socket_tasks, async_binance_client, api_keys,
                   hpc, hsym, wsOpen, closeCode, tsym, must_cancel>>
    /\ UNCHANGED <<ignored, nonFanVars>>

\* CancelledError is thrown into the task at the await it is suspended in.
\* In recv() or the broadcast it is caught (lines 110-112) and the loop breaks;
\* elsewhere it propagates; on every path the finally block runs.
Cancelled(t) ==
    /\ tpc[t] \in {"connect", "recv", "gather", "sleep"}
    /\ must_cancel[t]
    /\ must_cancel' = [must_cancel EXCEPT ![t] = FALSE]
    /\ tpc' = [tpc EXCEPT ![t] = "done_cancel"]
    /\ tsym' = [tsym EXCEPT ![t] = "-"]
    /\ bcast' = [bcast EXCEPT ![t] = NoBroadcast]
    /\ binance_socket_tasks' = ListenerFinally(binance_socket_tasks, tsym[t])
    /\ UNCHANGED <<active_connections, async_binance_client, api_keys,
                   hpc, hsym, wsOpen, closeCode>>
    /\ ignored' = ignored \ {t}
    /\ UNCHANGED nonFanVars

(***************************************************************************)
(* Numbers. A Python float v is modelled by the integer v * Scale (three   *)
(* decimals); a product of two such numbers carries Scale * Scale. An      *)
(* optional value (None or a value) is the empty set or a singleton.       *)
(***************************************************************************)
Scale == 10 * 10 * 10

None == {}

Some(v) == {v}

The(o) == CHOOSE v \in o : TRUE

RECURSIVE Pow10(_)
Pow10(n) == IF n <= 0 THEN 1 ELSE 10 * Pow10(n - 1)

\* int(round(-math.log(step, 10), 0)) for a step of step/Scale > 0: the integer
\* p with p - 1/2 <= -log10(step/Scale) < p + 1/2, that is
\* 10^(5-2p) < step^2 <= 10^(7-2p).
LogPrecision(step) ==
    CHOOSE p \in -1 .. 3 :
        IF p = 3 THEN step * step <= 10
        ELSE Pow10(5 - 2 * p) < step * step /\ step * step <= Pow10(7 - 2 * p)

\* math.floor(value * factor) / factor with factor = 10 ** precision: value
\* floored to a multiple of 10^-precision.
FloorToPrecision(value, precision) ==
    LET unit == Pow10(3 - precision)
    IN  IF precision >= 3 THEN value ELSE (value \div unit) * unit

\* trade_executor.adjust_quantity_to_step_size (precision 0 when step <= 0).
adjust_quantity_to_step_size(quantity, step_size) ==
    FloorToPrecision(quantity, IF step_size > 0 THEN LogPrecision(step_size) ELSE 0)

\* trade_executor.adjust_price_to_tick_size
adjust_price_to_tick_size(price, tick_size) ==
    FloorToPrecision(price, IF tick_size > 0 THEN LogPrecision(tick_size) ELSE 0)

(***************************************************************************)
(* Order executor (core/trade_executor.py).                                *)
(***************************************************************************)
\* min_notional when the symbol has no MIN_NOTIONAL / NOTIONAL filter (5.0).
DefaultMinNotional == 5 * Scale

\* A faulty lookup: it asks the gateway every time and never reads the cache.
LookupWithoutCache(cache, symbol_upper, resp) ==
    IF resp.kind = "info"
    THEN [info |-> Some(resp.info),
          cache |-> [k \in DOMAIN cache \cup {symbol_upper} |->
                        IF k = symbol_upper THEN resp.info ELSE cache[k]],
          calls |-> 1, raised |-> FALSE]
    ELSE [info |-> None, cache |-> cache, calls |-> 1, raised |-> resp.kind = "error"]

\* get_symbol_info: the cache answers if it holds the symbol; otherwise the
\* gateway is asked, a truthy answer is cached, an empty answer or a
\* BinanceAPIException gives None, and any other exception propagates.
\* resp is the gateway's answer: [kind, info].
get_symbol_info(cache, symbol_upper, resp) ==
    IF symbol_upper \in DOMAIN cache
    THEN [info |-> Some(cache[symbol_upper]), cache |-> cache, calls |-> 0, raised |-> FALSE]
    ELSE IF resp.kind = "info"
    THEN [info |-> Some(resp.info),
          cache |-> [k \in DOMAIN cache \cup {symbol_upper} |->
                        IF k = symbol_upper THEN resp.info ELSE cache[k]],
          calls |-> 1, raised |-> FALSE]
    ELSE [info |-> None, cache |-> cache, calls |-> 1, raised |-> resp.kind = "error"]

\* The outcome of one execute_trade call: what it returned ("None", "order" or
\* "raised"), the parameters of its create_order call (None if it made none),
\* the trade records it wrote, the cache it left, the number of exchangeInfo
\* requests it made and how its commit to the store went ("none" if it made
\* none, "ok" or "error").
Outcome(ret, params, records, cache, info_calls, commit) ==
    [ret |-> ret, params |-> params, records |-> records, cache |-> cache,
     info_calls |-> info_calls, commit |-> commit]

\* A faulty executor: it passes on the quote quantity whenever one is given.
BothQuantities(a, step_size) ==
    IF a.quantity # None
    THEN Some([quantity |-> a.quantity, quoteOrderQty |-> a.quote_order_qty])
    ELSE IF a.quote_order_qty # None
    THEN Some([quantity |-> None, quoteOrderQty |-> a.quote_order_qty])
    ELSE None

\* Lines 114-130: the quantity part of the order parameters; None when the
\* call is rejected there.
QuantityParams(a, step_size) ==
    IF a.quantity # None
    THEN IF step_size # None
         THEN LET adjusted_quantity == adjust_quantity_to_step_size(The(a.quantity), The(step_size))
              IN  IF adjusted_quantity <= 0 THEN None
                  ELSE Some([quantity |-> Some(adjusted_quantity), quoteOrderQty |-> None])
         ELSE Some([quantity |-> a.quantity, quoteOrderQty |-> None])
    ELSE IF a.side = "BUY" /\ a.order_type = "MARKET" /\ a.quote_order_qty # None
    THEN Some([quantity |-> None, quoteOrderQty |-> a.quote_order_qty])
    ELSE None

\* A faulty executor: it sends the price of a LIMIT order as given.
PriceAsGiven(a, tick_size) ==
    IF a.order_type = "LIMIT"
    THEN IF a.price = None THEN None
         ELSE Some([price |-> a.price, timeInForce |-> Some("GTC")])
    ELSE Some([price |-> None, timeInForce |-> None])

\* Lines 132-144: the price part for a LIMIT order (formatting the floored
\* price to the tick's decimals does not change its value).
PriceParams(a, tick_size) ==
    IF a.order_type = "LIMIT"
    THEN IF a.price = None THEN None
         ELSE Some([price |-> IF tick_size # None
                              THEN Some(adjust_price_to_tick_size(The(a.price), The(tick_size)))
                              ELSE a.price,
                    timeInForce |-> Some("GTC")])
    ELSE Some([price |-> None, timeInForce |-> None])

\* Lines 152-159: the price the notional check uses: the requested price of a
\* LIMIT order, the ticker price when that is missing or zero, and nothing
\* for a MARKET order. An optional value that is None or 0 is falsy.
Truthy(o) == o # None /\ The(o) # 0

CurrentOrderPrice(a, ticker) ==
    LET current_order_price == IF a.order_type = "LIMIT" THEN a.price ELSE None
    IN  IF ~Truthy(current_order_price) /\ a.order_type # "MARKET"
        THEN IF ticker.kind = "price" THEN Some(ticker.price) ELSE current_order_price
        ELSE current_order_price

\* Lines 161-165: the notional value, scaled by Scale * Scale.
NotionalValue(q, current_order_price) ==
    IF q.quoteOrderQty # None THEN The(q.quoteOrderQty) * Scale
    ELSE IF q.quantity # None /\ Truthy(current_order_price)
    THEN The(q.quantity) * The(current_order_price)
    ELSE 0

\* Line 167: the order is rejected for its notional value.
BelowMinNotional(notional_value, min_notional) ==
    notional_value > 0 /\ notional_value < min_notional * Scale

RECURSIVE SumCost(_)
SumCost(fills) ==
    IF fills = << >> THEN 0 ELSE Head(fills).price * Head(fills).qty + SumCost(Tail(fills))

RECURSIVE SumQty(_)
SumQty(fills) == IF fills = << >> THEN 0 ELSE Head(fills).qty + SumQty(Tail(fills))

\* A faulty recording: only the parts of a fill count as executed.
FillsOnly(a, order) ==
    [price |-> IF SumQty(order.fills) > 0
               THEN SumCost(order.fills) \div SumQty(order.fills) ELSE 0,
     quantity |-> SumQty(order.fills)]

\* Lines 184-195: the price and quantity recorded for an order response.
RecordedFill(a, order) ==
    IF a.order_type = "MARKET" /\ order.status = "FILLED" /\ order.fills # << >>
    THEN [price |-> IF SumQty(order.fills) > 0
                    THEN SumCost(order.fills) \div SumQty(order.fills) ELSE 0,
          quantity |-> SumQty(order.fills)]
    ELSE [price |-> order.price, quantity |-> order.executedQty]

\* The order response create_order returns: the exchange repeats the limit
\* price of the request in the response's price field (line 179).
OrderResponse(params, order) ==
    IF params.price # None THEN [order EXCEPT !.price = The(params.price)] ELSE order

\* Lines 172-226: create_order and the recording of the fill. gw is the
\* gateway's answer to create_order, db the store's answer to the insert.
PlaceOrder(a, bot_id, params, cache, info_calls, gw, db) ==
    IF gw.kind # "ok"
    THEN Outcome("None", Some(params), << >>, cache, info_calls, "none")
    ELSE LET fill == RecordedFill(a, OrderResponse(params, gw.order))
         IN  IF fill.quantity > 0
             THEN IF db = "ok"
                  THEN Outcome("order", Some(params),
                               << [bot_id |-> bot_id, symbol |-> params.symbol,
                                   action |-> a.side, price |-> fill.price,
                                   quantity |-> fill.quantity] >>,
                               cache, info_calls, "ok")
                  \* create_trade_history raised: caught by line 223, None returned
                  ELSE Outcome("None", Some(params), << >>, cache, info_calls, "error")
             ELSE Outcome("order", Some(params), << >>, cache, info_calls, "none")

\* execute_trade(db, bot_id, symbol, side, order_type, quantity,
\* quote_order_qty, price, client). a holds the arguments (a.client: a client
\* is passed or get_binance_client() returns one); e holds what the gateway
\* and the store answer if asked.
execute_trade(a, bot_id, cache, e) ==
    IF ~a.client THEN Outcome("None", None, << >>, cache, 0, "none")
    ELSE
    LET symbol_upper == Upper(a.symbol)
        lookup == get_symbol_info(cache, symbol_upper, e.info)
    IN
    IF lookup.raised THEN Outcome("raised", None, << >>, lookup.cache, lookup.calls, "none")
    ELSE IF lookup.info = None THEN Outcome("None", None, << >>, lookup.cache, lookup.calls, "none")
    ELSE
    LET symbol_info == The(lookup.info)
        min_notional == IF symbol_info.minNotional # None
                        THEN The(symbol_info.minNotional) ELSE DefaultMinNotional
        q == QuantityParams(a, symbol_info.stepSize)
        pr == PriceParams(a, symbol_info.tickSize)
    IN
    IF q = None \/ pr = None THEN Outcome("None", None, << >>, lookup.cache, lookup.calls, "none")
    ELSE
    LET params == [symbol |-> symbol_upper, side |-> a.side, type |-> a.order_type,
                   quantity |-> The(q).quantity, quoteOrderQty |-> The(q).quoteOrderQty,
                   price |-> The(pr).price, timeInForce |-> The(pr).timeInForce]
        notional_value == NotionalValue(The(q), CurrentOrderPrice(a, e.ticker))
    IN
    IF BelowMinNotional(notional_value, min_notional)
    THEN Outcome("None", None, << >>, lookup.cache, lookup.calls, "none")
    ELSE PlaceOrder(a, bot_id, params, lookup.cache, lookup.calls, e.order, e.db)

(***************************************************************************)
(* Inputs of execute_trade.                                                *)
(***************************************************************************)
\* Trading rules a symbol may have: stepSize "0.01", tickSize "0.01",
\* minNotional 10.0, each filter present or not.
SymbolInfos ==
    [stepSize : {None, Some(10)}, tickSize : {None, Some(10)},
     minNotional : {None, Some(10 * Scale)}]

\* The gateway's answers to get_symbol_info.
InfoResponses ==
    [kind : {"info"}, info : SymbolInfos]
        \cup [kind : {"none", "api_error", "error"}, info : {[stepSize |-> None, tickSize |-> None, minNotional |-> None]}]

\* The market price (20.0) and whether get_symbol_ticker answers with it.
TickerResponses == [kind : {"price", "error"}, price : {20 * Scale}]

\* Order responses: a MARKET fill in two parts, a MARKET order that expired
\* after one part was filled, a fill reported without parts, and an order
\* accepted but not filled.
OrderResponses ==
    { [status |-> "FILLED", price |-> 0, executedQty |-> 250,
       fills |-> << [price |-> 20000, qty |-> 100], [price |-> 20010, qty |-> 150] >>],
      [status |-> "EXPIRED", price |-> 0, executedQty |-> 100,
       fills |-> << [price |-> 20000, qty |-> 100] >>],
      [status |-> "FILLED", price |-> 12340, executedQty |-> 250, fills |-> << >>],
      [status |-> "NEW", price |-> 12340, executedQty |-> 0, fills |-> << >>] }

\* The gateway's answers to create_order: a response, or one of the
\* exceptions of lines 215-224.
CreateOrderResponses ==
    [kind : {"ok"}, order : OrderResponses]
        \cup [kind : {"min_amount", "order_error", "api_error", "error"},
              order : {[status |-> "NONE", price |-> 0, executedQty |-> 0, fills |-> << >>]}]

Worlds ==
    [info : InfoResponses, ticker : TickerResponses, order : CreateOrderResponses,
     db : {"ok", "error"}]

\* Arguments: quantities 0.0, 0.005 and 0.25, quote amounts 3.0 and 10.0,
\* prices 0.0 and 45.678.
TradeArgs ==
    [client : BOOLEAN, symbol : {"btcusdt", "ETHUSDT"}, side : {"BUY", "SELL"},
     order_type : {"MARKET", "LIMIT"},
     quantity : {None, Some(0), Some(5), Some(250)},
     quote_order_qty : {None, Some(3 * Scale), Some(10 * Scale)},
     price : {None, Some(0), Some(45678)}]

NoCall == [a |-> [client |-> FALSE, symbol |-> "BTCUSDT", side |-> "BUY", order_type |-> "MARKET",
                  quantity |-> None, quote_order_qty |-> None, price |-> None],
           bot_id |-> 0,
           e |-> [info |-> [kind |-> "none",
                            info |-> [stepSize |-> None, tickSize |-> None, minNotional |-> None]],
                  ticker |-> [kind |-> "error", price |-> 20 * Scale],
                  order |-> [kind |-> "error",
                             order |-> [status |-> "NONE", price |-> 0, executedQty |-> 0,
                                        fills |-> << >>]],
                  db |-> "ok"]]

\* No execute_trade call is being made.
ExecQuiet == symbol_info_cache = << >> /\ xin = NoCall /\ xout = None

\* One execute_trade call: any arguments, any world, and a cache that is empty
\* or already holds rules for BTCUSDT.
ExecInit ==
    /\ symbol_info_cache \in
           { << >>,
             [k \in {"BTCUSDT"} |-> [stepSize |-> Some(1), tickSize |-> None, minNotional |-> None]] }
    /\ xin \in [a : TradeArgs, bot_id : {1}, e : Worlds]
    /\ xout = None

ExecCall ==
    /\ xout = None
    /\ xin # NoCall
    /\ xout' = Some(execute_trade(xin.a, xin.bot_id, symbol_info_cache, xin.e))
    /\ symbol_info_cache' = The(xout').cache
    /\ UNCHANGED <<xin, fanVars, schedVars, ledgerVars, pureVars>>

(***************************************************************************)
(* Strategy engines (bots/).  A settings dictionary is a record; a key it  *)
(* lacks reads as the default, as dict.get does.                           *)
(***************************************************************************)
Get(config, key, default) == IF key \in DOMAIN config THEN config[key] ELSE default

\* A faulty engine: it does not look at the RSI.
MomentumIgnoresRsi(config, mk) ==
    LET latest == mk.latest
        prev == mk.prev
        buy_signal == /\ prev.sma_short <= prev.sma_long /\ latest.sma_short > latest.sma_long
                      /\ latest.macd > latest.macds /\ latest.macdh > 0
        sell_signal == /\ prev.sma_short >= prev.sma_long /\ latest.sma_short < latest.sma_long
                       /\ latest.macd < latest.macds /\ latest.macdh < 0
    IN  IF mk.kind # "rows" THEN "HOLD"
        ELSE IF buy_signal THEN "BUY"
        ELSE IF sell_signal THEN "SELL"
        ELSE "HOLD"

\* get_momentum_signal.  mk is what get_klines and the indicators give: kind
\* "rows" with the last two rows, or "empty" (no klines), "short" (fewer
\* than two rows after dropna), "api_error", "error" -- all of which give
\* HOLD (lines 60-62, 96-99, 144-149).
get_momentum_signal(config, mk) ==
    LET rsi_oversold == Get(config, "rsi_oversold", 30)
        rsi_overbought == Get(config, "rsi_overbought", 70)
        latest == mk.latest
        prev == mk.prev
        ma_cross_bullish == prev.sma_short <= prev.sma_long /\ latest.sma_short > latest.sma_long
        rsi_buy_ok == latest.rsi < rsi_overbought
        macd_bullish == latest.macd > latest.macds /\ latest.macdh > 0
        buy_signal == ma_cross_bullish /\ macd_bullish /\ rsi_buy_ok
        ma_cross_bearish == prev.sma_short >= prev.sma_long /\ latest.sma_short < latest.sma_long
        rsi_sell_ok == latest.rsi > rsi_oversold
        macd_bearish == latest.macd < latest.macds /\ latest.macdh < 0
        sell_signal == ma_cross_bearish /\ macd_bearish /\ rsi_sell_ok
    IN  IF mk.kind # "rows" THEN "HOLD"
        ELSE IF buy_signal THEN "BUY"
        ELSE IF sell_signal THEN "SELL"
        ELSE "HOLD"

\* np.linspace(lower_limit, upper_limit, num_grids)[i], times (num_grids - 1).
GridLevelTimes(lower_limit, upper_limit, num_grids, i) ==
    lower_limit * (num_grids - 1) + i * (upper_limit - lower_limit)

\* get_grid_actions.  The limits and num_grids are optional numbers; the
\* list handed to all() is built whole, so a missing one raises TypeError in
\* a comparison (lines 37-41).  Gives [raised, actions].
get_grid_actions(config, current_price) ==
    LET upper_limit == Get(config, "upper_limit", None)
        lower_limit == Get(config, "lower_limit", None)
        num_grids == Get(config, "num_grids", None)
    IN
    IF upper_limit = None \/ lower_limit = None \/ num_grids = None
    THEN [raised |-> TRUE, actions |-> << >>]
    ELSE IF ~ (The(upper_limit) > The(lower_limit) /\ The(num_grids) >= 2)
    THEN [raised |-> FALSE, actions |-> << >>]
    ELSE
    LET lo == The(lower_limit)
        up == The(upper_limit)
        n == The(num_grids)
        buy == IF current_price * (n - 1) < GridLevelTimes(lo, up, n, 1)
               THEN << [action |-> "BUY", price |-> lo, grid_level |-> 0] >>
               ELSE << >>
        sell == IF current_price * (n - 1) > GridLevelTimes(lo, up, n, n - 2)
                THEN << [action |-> "SELL", price |-> up, grid_level |-> n - 1] >>
                ELSE << >>
    IN  [raised |-> FALSE, actions |-> buy \o sell]

\* A faulty check: the investment is due only after the period has passed.
InvestStrictlyAfter(frequency, last_investment_time, now_h) ==
    IF last_investment_time = None THEN TRUE
    ELSE LET delta == CASE frequency = "daily" -> Some(24)
                        [] frequency = "weekly" -> Some(7 * 24)
                        [] frequency = "hourly" -> Some(1)
                        [] OTHER -> None
         IN  IF delta = None THEN FALSE
             ELSE now_h > The(last_investment_time) + The(delta)

\* should_invest_now.  Times are hours; last_investment_time is optional.
should_invest_now(frequency, last_investment_time, now_h) ==
    IF last_investment_time = None THEN TRUE
    ELSE LET delta == CASE frequency = "daily" -> Some(24)
                        [] frequency = "weekly" -> Some(7 * 24)
                        [] frequency = "hourly" -> Some(1)
                        [] OTHER -> None
         IN  IF delta = None THEN FALSE
             ELSE now_h >= The(last_investment_time) + The(delta)

\* A faulty stop: it fires at the stop price too.
AtOrBelowStop(current_price, highest_price_since_purchase, trailing_stop_pct) ==
    current_price * 100 <= highest_price_since_purchase * (100 - trailing_stop_pct)

\* Lines 120-121: current_price < highest_price_since_purchase * (1 - pct / 100).
BelowStop(current_price, highest_price_since_purchase, trailing_stop_pct) ==
    current_price * 100 < highest_price_since_purchase * (100 - trailing_stop_pct)

\* A faulty engine: it returns nothing when nothing fires.
DcaNothing(price) == << >>

DcaHold(price) == << [action |-> "HOLD", amount |-> None, price |-> price] >>

\* str.lower() for the names of the moving averages.
Lower(s) ==
    CASE s = "SMA" -> "sma"
      [] s = "EMA" -> "ema"
      [] s = "WMA" -> "wma"
      [] OTHER -> s

\* A faulty engine: it looks for a dip also when a regular buy is made.
DipAlongsideBuy(invest_now) == TRUE

\* Line 137: the smart dip is looked for only when no regular buy is made.
DipChecked(invest_now) == ~invest_now

\* Lines 97-179 of get_dca_actions, the part inside its try block.  mk is the
\* market: the ticker's answer, and for the smart dip the klines' answer with
\* the last moving average.
DcaActions(config, mk, state, now_h) ==
    LET investment_amount == Get(config, "investment_amount", None)
        frequency == Get(config, "frequency", None)
        smart_dip_pct == Get(config, "smart_dip_pct", None)
        smart_dip_ma_period == Get(config, "smart_dip_ma_period", Some(20))
        smart_dip_ma_type == Lower(The(Get(config, "smart_dip_ma_type", Some("sma"))))
        smart_dip_multiplier == Get(config, "smart_dip_multiplier", Scale)
        trailing_stop_pct == Get(config, "trailing_stop_pct", None)
        last_investment_time == Get(state, "last_investment_time", None)
        average_purchase_price == Get(state, "average_purchase_price", None)
        highest_price_since_purchase == Get(state, "highest_price_since_purchase", None)
        position_active == Get(state, "position_active", FALSE)
    IN
    IF ~Truthy(investment_amount) \/ frequency = None \/ frequency = Some("")
    THEN DcaHold(None)
    ELSE IF mk.ticker.kind # "price" THEN DcaHold(None)
    ELSE
    LET current_price == mk.ticker.price
        stop_hit ==
            /\ position_active /\ Truthy(trailing_stop_pct)
            /\ Truthy(average_purchase_price) /\ Truthy(highest_price_since_purchase)
            /\ BelowStop(current_price, The(highest_price_since_purchase),
                         The(trailing_stop_pct))
        invest_now == should_invest_now(The(frequency), last_investment_time, now_h)
        regular == IF invest_now
                   THEN << [action |-> "DCA_BUY", amount |-> investment_amount,
                            price |-> Some(current_price)] >>
                   ELSE << >>
        dip_hit ==
            /\ DipChecked(invest_now) /\ Truthy(smart_dip_pct) /\ Truthy(smart_dip_ma_period)
            /\ mk.klines.kind = "rows"
            /\ smart_dip_ma_type \in {"sma", "ema"}
            \* current_price < last_ma * (1 - pct / 100)
            /\ current_price * 100 < mk.klines.last_ma * (100 - The(smart_dip_pct))
        dip == IF dip_hit
               THEN << [action |-> "SMART_DIP_BUY",
                        amount |-> Some((The(investment_amount) * smart_dip_multiplier) \div Scale),
                        price |-> Some(current_price)] >>
               ELSE << >>
    IN  IF stop_hit
        THEN << [action |-> "TRAILING_STOP_SELL", amount |-> None, price |-> Some(current_price)] >>
        ELSE IF regular \o dip = << >> THEN DcaHold(Some(current_price))
        ELSE regular \o dip

\* get_dca_actions.  Line 80 calls .lower() on the configured
\* smart_dip_ma_type before the try block is entered: a value that is no
\* string (a JSON null) raises AttributeError to the caller.  Gives
\* [raised, actions].
get_dca_actions(config, mk, state, now_h) ==
    IF Get(config, "smart_dip_ma_type", Some("sma")) = None
    THEN [raised |-> TRUE, actions |-> << >>]
    ELSE [raised |-> FALSE, actions |-> DcaActions(config, mk, state, now_h)]

(***************************************************************************)
(* Scheduler and tick (main.py).  The job sits in an AsyncIOScheduler: the *)
(* scheduler's wake-up and the job run as callbacks of one event loop, and *)
(* run_active_bots_job awaits nothing, so from its first line to its       *)
(* return nothing else of the loop runs.  Its calls block, so the clock    *)
(* moves while it runs.                                                    *)
(***************************************************************************)
NumBots == 4
MaxTime == 150
ClockStep == 10

\* add_job(run_active_bots_job, IntervalTrigger(minutes=1), ...,
\* misfire_grace_time=30); one instance at a time and coalescing are the
\* scheduler's job defaults.
interval == 60
misfire_grace_time == 30
max_instances == 1

\* The bot_configurations table: active bots of every type, and one type no
\* engine knows.
BotTypes == <<"momentum", "grid", "dca", "arbitrage">>

BotSettings(bot_type) ==
    CASE bot_type = "momentum" -> [symbol |-> "btcusdt"]
      [] bot_type = "grid" -> [symbol |-> "ETHUSDT", lower_limit |-> Some(100 * Scale),
                               upper_limit |-> Some(200 * Scale), num_grids |-> Some(3)]
      [] bot_type = "dca" -> [symbol |-> "ETHUSDT", investment_amount |-> Some(100 * Scale),
                              frequency |-> Some("daily")]
      [] OTHER -> [symbol |-> "BTCUSDT"]

bot_configurations ==
    [i \in 1 .. NumBots |->
        LET bot_type == BotTypes[((i - 1) % Len(BotTypes)) + 1]
        IN  [id |-> i, bot_type |-> bot_type, is_active |-> TRUE,
             settings |-> BotSettings(bot_type)]]

IsActive(bot) == bot.is_active

get_active_bot_configs == SelectSeq(bot_configurations, IsActive)

\* What the exchange and the store may answer during a tick.
KlineRow(sma_short, sma_long, rsi, macd, macds, macdh) ==
    [sma_short |-> sma_short, sma_long |-> sma_long, rsi |-> rsi, macd |-> macd,
     macds |-> macds, macdh |-> macdh]

MomentumMarkets ==
    { [kind |-> "rows", prev |-> KlineRow(9, 10, 45, 1, 1, 0), latest |-> KlineRow(11, 10, 50, 2, 1, 1)],
      [kind |-> "rows", prev |-> KlineRow(11, 10, 55, 1, 1, 0), latest |-> KlineRow(9, 10, 50, 1, 2, -1)],
      [kind |-> "rows", prev |-> KlineRow(9, 10, 50, 1, 1, 0), latest |-> KlineRow(9, 10, 50, 1, 1, 0)],
      [kind |-> "api_error", prev |-> KlineRow(0, 0, 0, 0, 0, 0), latest |-> KlineRow(0, 0, 0, 0, 0, 0)] }

TickWorlds ==
    [info : { [kind |-> "info",
               info |-> [stepSize |-> Some(1), tickSize |-> Some(10), minNotional |-> Some(10 * Scale)]],
              [kind |-> "api_error",
               info |-> [stepSize |-> None, tickSize |-> None, minNotional |-> None]],
              [kind |-> "error",
               info |-> [stepSize |-> None, tickSize |-> None, minNotional |-> None]] },
     ticker : TickerResponses,
     order : { [kind |-> "ok",
                order |-> [status |-> "FILLED", price |-> 0, executedQty |-> 1,
                           fills |-> << [price |-> 20000, qty |-> 1] >>]],
               [kind |-> "api_error",
                order |-> [status |-> "NONE", price |-> 0, executedQty |-> 0, fills |-> << >>]] },
     db : {"ok", "error"}]

GridTickers ==
    [kind : {"price"}, price : {90 * Scale, 150 * Scale, 250 * Scale}]
        \cup [kind : {"error"}, price : {0}]

DcaMarkets ==
    [ticker : [kind : {"price", "error"}, price : {150 * Scale}],
     klines : {[kind |-> "none", last_ma |-> 0]}]

\* Lines 76: the state the tick hands to the DCA engine.
dca_state ==
    [last_investment_time |-> None, average_purchase_price |-> None,
     highest_price_since_purchase |-> None, position_active |-> FALSE]

\* The state at scheduler.start(): the first fire time is one interval away.
SchedInit ==
    /\ now = 0
    /\ next_run_time = interval
    /\ instances = 0
    /\ pending = {}
    /\ missed = {}
    /\ tick_runs = << >>
    /\ binance_client \in {"client", "None"}
    /\ job_pc = "idle"
    /\ active_bots = << >>
    /\ bot_log = << >>
    /\ db_session = "closed"
    /\ tick_error = FALSE

\* The scheduler has not been started.
SchedQuiet == SchedInit /\ binance_client = "client"

\* No tick has run: nothing was ordered, written or emitted.
LedgerQuiet == exchange_orders = << >> /\ trade_history = << >> /\ dca_emitted = {}

\* No pure function is being called.
AdjustQuiet == adj_in = [quantity |-> 0, step_size |-> 1] /\ adj_out = None

GridQuiet == grid_config = << >> /\ grid_evals = << >>

EngineQuiet == engine_call = [fn |-> "none"] /\ engine_result = None

RulesQuiet == info_log = << >>

PureQuiet == AdjustQuiet /\ GridQuiet /\ EngineQuiet /\ RulesQuiet

\* Time passes.
Advance ==
    /\ now + ClockStep <= MaxTime
    /\ now' = now + ClockStep
    /\ UNCHANGED <<next_run_time, instances, pending, missed, tick_runs, binance_client,
                   job_pc, active_bots, bot_log, db_session, tick_error>>
    /\ UNCHANGED <<fanVars, execVars, ledgerVars, pureVars>>

\* The latest fire time that is due: with coalescing, the one run time a
\* late wake-up submits for all the fire times it finds due.
CoalescedRunTime == next_run_time + ((now - next_run_time) \div interval) * interval

\* The scheduler's wake-up: the due run is submitted to the executor unless
\* max_instances runs of the job are submitted and unfinished, and the next
\* fire time is computed from the run time.
ProcessJobs ==
    /\ job_pc = "idle"
    /\ now >= next_run_time
    /\ IF instances >= max_instances
       THEN UNCHANGED <<pending, instances>>
       ELSE /\ pending' = pending \cup {CoalescedRunTime}
            /\ instances' = instances + 1
    /\ next_run_time' = CoalescedRunTime + interval
    /\ UNCHANGED <<now, missed, tick_runs, binance_client, job_pc, active_bots, bot_log,
                   db_session, tick_error>>
    /\ UNCHANGED <<fanVars, execVars, ledgerVars, pureVars>>

\* A scheduler without grace time: lateness is never a reason to skip a run.
NeverMisfired(start, run_time) == FALSE

\* misfire_grace_time=30: a run that starts more than the grace time after
\* its run time is a misfire.
Misfired(start, run_time) == start - run_time > misfire_grace_time

\* The job task starts too late: the run is skipped.
JobMissed(r) ==
    /\ job_pc = "idle"
    /\ r \in pending
    /\ Misfired(now, r)
    /\ pending' = pending \ {r}
    /\ missed' = missed \cup {r}
    /\ instances' = instances - 1
    /\ UNCHANGED <<now, next_run_time, tick_runs, binance_client, job_pc, active_bots, bot_log,
                   db_session, tick_error>>
    /\ UNCHANGED <<fanVars, execVars, ledgerVars, pureVars>>

\* binance_client.get_binance_client(): the module's client, or None.
get_binance_client == binance_client

\* A faulty tick: it goes on without a client.
ClientNeverMissing(client) == FALSE

\* Line 38: if not binance_client.
ClientUnavailable(client) == client = "None"

\* A faulty tick: it returns without closing its session.
SessionLeftOpen(session) == session

\* db.close() (lines 40 and 111): the session after the call.
db_close(session) == "closed"

TickRun(r, ended) == [run_time |-> r, started |-> now, ended |-> ended]

\* Lines 35-41: the tick starts and finds no client: it closes its session
\* and returns.
TickWithoutClient(r) ==
    /\ job_pc = "idle"
    /\ r \in pending
    /\ ~Misfired(now, r)
    /\ ClientUnavailable(get_binance_client)
    /\ pending' = pending \ {r}
    /\ tick_runs' = Append(tick_runs, TickRun(r, TRUE))
    /\ instances' = instances - 1
    /\ active_bots' = << >>
    /\ bot_log' = << >>
    /\ tick_error' = FALSE
    /\ db_session' = db_close("open")
    /\ UNCHANGED <<now, next_run_time, missed, binance_client, job_pc>>
    /\ exchange_orders' = << >>
    /\ trade_history' = << >>
    /\ UNCHANGED <<fanVars, execVars, dca_emitted, pureVars>>

\* Lines 35-51: the tick starts and fetches the active bots.
TickStart(r) ==
    /\ job_pc = "idle"
    /\ r \in pending
    /\ ~Misfired(now, r)
    /\ ~ClientUnavailable(get_binance_client)
    /\ pending' = pending \ {r}
    /\ tick_runs' = Append(tick_runs, TickRun(r, FALSE))
    /\ active_bots' = get_active_bot_configs
    /\ bot_log' = << >>
    /\ tick_error' = FALSE
    /\ db_session' = "open"
    /\ job_pc' = "loop"
    /\ UNCHANGED <<now, next_run_time, instances, missed, binance_client>>
    /\ exchange_orders' = << >>
    /\ trade_history' = << >>
    /\ UNCHANGED <<fanVars, execVars, dca_emitted, pureVars>>

\* Lines 35-51, 108-111: the query for the active bots raises; the outer except
\* logs it and the session is closed.
TickFetchFailed(r) ==
    /\ job_pc = "idle"
    /\ r \in pending
    /\ ~Misfired(now, r)
    /\ ~ClientUnavailable(get_binance_client)
    /\ pending' = pending \ {r}
    /\ tick_runs' = Append(tick_runs, TickRun(r, TRUE))
    /\ instances' = instances - 1
    /\ active_bots' = << >>
    /\ bot_log' = << >>
    /\ tick_error' = TRUE
    /\ db_session' = db_close("open")
    /\ UNCHANGED <<now, next_run_time, missed, binance_client, job_pc>>
    /\ exchange_orders' = << >>
    /\ trade_history' = << >>
    /\ UNCHANGED <<fanVars, execVars, dca_emitted, pureVars>>

\* The loop of line 53 has a bot left, and that bot.
InLoop == job_pc = "loop" /\ Len(bot_log) < Len(active_bots)

CurrentBot == active_bots[Len(bot_log) + 1]

\* What the tick did for one bot: the actionable intents its engine returned
\* (empty if it returned none or raised), whether execute_trade was called and
\* what it gave, and whether the except of line 105 caught an error.
LogEntry(bot, intents, executed, error, ret) ==
    [id |-> bot.id, bot_type |-> bot.bot_type, intents |-> intents, executed |-> executed,
     error |-> error, ret |-> ret]

\* Lines 85-98: the arguments of the tick's execute_trade call: a MARKET
\* order, 10.0 of quote currency for a BUY, 0.001 of base for a SELL.
TickTradeArgs(symbol, signal) ==
    [client |-> binance_client = "client", symbol |-> symbol, side |-> signal,
     order_type |-> "MARKET",
     quantity |-> IF signal = "BUY" THEN None ELSE Some(1),
     quote_order_qty |-> IF signal = "BUY" THEN Some(10 * Scale) ELSE None,
     price |-> None]

\* A faulty executor: an order that came to nothing is placed a second time.
ResubmitFailed(out, bot_id) ==
    IF out.params = None THEN << >>
    ELSE IF out.ret = "None"
    THEN << [bot_id |-> bot_id, params |-> The(out.params)],
            [bot_id |-> bot_id, params |-> The(out.params)] >>
    ELSE << [bot_id |-> bot_id, params |-> The(out.params)] >>

\* The create_order calls of one execute_trade call, as the exchange gets
\* them: the one of line 179, if the call came that far.
SubmittedOrders(out, bot_id) ==
    IF out.params = None THEN << >>
    ELSE << [bot_id |-> bot_id, params |-> The(out.params)] >>

\* Lines 54-106 for a momentum bot: the signal, and for BUY or SELL the
\* order.  A commit by execute_trade expires the session's objects.
MomentumStep(mk, e) ==
    /\ InLoop
    /\ CurrentBot.bot_type = "momentum"
    /\ LET bot == CurrentBot
           config == bot.settings
           symbol == Get(config, "symbol", "UNKNOWN")
           signal == get_momentum_signal(config, mk)
           out == execute_trade(TickTradeArgs(symbol, signal), bot.id, symbol_info_cache, e)
       IN  IF signal \in {"BUY", "SELL"}
           THEN /\ symbol_info_cache' = out.cache
                /\ db_session' = IF out.commit # "none" THEN "expired" ELSE db_session
                /\ bot_log' = Append(bot_log,
                                  LogEntry(bot, {signal}, TRUE, out.ret = "raised", out.ret))
                /\ exchange_orders' = exchange_orders \o SubmittedOrders(out, bot.id)
                /\ trade_history' = trade_history \o out.records
           ELSE /\ bot_log' = Append(bot_log, LogEntry(bot, {}, FALSE, FALSE, "-"))
                /\ UNCHANGED <<symbol_info_cache, db_session, exchange_orders, trade_history>>
    /\ UNCHANGED <<now, next_run_time, instances, pending, missed, tick_runs, binance_client,
                   job_pc, active_bots, tick_error>>
    /\ UNCHANGED <<fanVars, xin, xout, dca_emitted, pureVars>>

RECURSIVE ActionsOf(_)
\* The actions named in an engine's list.
ActionsOf(actions) ==
    IF actions = << >> THEN {} ELSE {Head(actions).action} \cup ActionsOf(Tail(actions))

\* Lines 54-106 for a grid bot: the ticker, then the engine; nothing is
\* executed (line 73).
GridStep(tk) ==
    /\ InLoop
    /\ CurrentBot.bot_type = "grid"
    /\ LET bot == CurrentBot
           result == get_grid_actions(bot.settings, tk.price)
       IN  bot_log' = Append(bot_log,
                IF tk.kind # "price" \/ result.raised
                THEN LogEntry(bot, {}, FALSE, TRUE, "-")
                ELSE LogEntry(bot, ActionsOf(result.actions), FALSE, FALSE, "-"))
    /\ UNCHANGED <<now, next_run_time, instances, pending, missed, tick_runs, binance_client,
                   job_pc, active_bots, db_session, tick_error>>
    /\ UNCHANGED <<fanVars, execVars, ledgerVars, pureVars>>

\* Lines 54-106 for a DCA bot: the engine with a fresh state; nothing is
\* executed (line 81).
DcaStep(mk) ==
    /\ InLoop
    /\ CurrentBot.bot_type = "dca"
    /\ LET bot == CurrentBot
           result == get_dca_actions(bot.settings, mk, dca_state, 0)
           action_details == result.actions
       IN  /\ bot_log' = Append(bot_log,
                    LogEntry(bot, ActionsOf(action_details) \ {"HOLD"}, FALSE, result.raised, "-"))
           /\ dca_emitted' =
                  IF "DCA_BUY" \in ActionsOf(action_details)
                  THEN dca_emitted \cup {[id |-> bot.id, tick |-> Len(tick_runs)]}
                  ELSE dca_emitted
    /\ UNCHANGED <<now, next_run_time, instances, pending, missed, tick_runs, binance_client,
                   job_pc, active_bots, db_session, tick_error>>
    /\ UNCHANGED <<fanVars, execVars, exchange_orders, trade_history, pureVars>>

\* Lines 54-106 for a bot of any other type: no branch is taken.
OtherTypeStep ==
    /\ InLoop
    /\ CurrentBot.bot_type \notin {"momentum", "grid", "dca"}
    /\ bot_log' = Append(bot_log, LogEntry(CurrentBot, {}, FALSE, FALSE, "-"))
    /\ UNCHANGED <<now, next_run_time, instances, pending, missed, tick_runs, binance_client,
                   job_pc, active_bots, db_session, tick_error>>
    /\ UNCHANGED <<fanVars, execVars, ledgerVars, pureVars>>

\* The job returns: its run has ended and the executor counts one run less.
JobReturns ==
    /\ tick_runs' = [tick_runs EXCEPT ![Len(tick_runs)].ended = TRUE]
    /\ instances' = instances - 1
    /\ job_pc' = "idle"
    /\ db_session' = db_close(db_session)

\* Line 54 reads bot.id, bot.bot_type and bot.settings before the try of line
\* 60.  SessionLocal expires its objects on commit (the sessionmaker's
\* default), so after a commit by execute_trade, made or failed, that read
\* queries the store through the same session.  A query that raises there
\* (the store is gone, or the failed commit was never rolled back) is caught
\* by the outer except of line 108: the loop is left.
BotLoadFailed ==
    /\ InLoop
    /\ db_session = "expired"
    /\ tick_error' = TRUE
    /\ JobReturns
    /\ UNCHANGED <<now, next_run_time, pending, missed, binance_client, active_bots, bot_log>>
    /\ UNCHANGED <<fanVars, execVars, ledgerVars, pureVars>>

\* Lines 110-111: the loop is over, the session is closed.
TickEnd ==
    /\ job_pc = "loop"
    /\ Len(bot_log) = Len(active_bots)
    /\ JobReturns
    /\ UNCHANGED <<now, next_run_time, pending, missed, binance_client, active_bots, bot_log,
                   tick_error>>
    /\ UNCHANGED <<fanVars, execVars, ledgerVars, pureVars>>

(***************************************************************************)
(* Specifications.                                                         *)
(***************************************************************************)
\* The lifecycle of subscribers and listener tasks: every handler and listener
\* step except message traffic (a broadcast changes no shared state).
FanNext ==
    \/ \E c \in Clients, raw \in RawSymbols : Subscribe(c, raw)
    \/ \E c \in Clients : ClientCreated(c)
    \/ \E c \in Clients : ClientCreateFailed(c)
    \/ \E c \in Clients : CloseDone(c)
    \/ \E c \in Clients : ClientGone(c)
    \/ \E c \in Clients : Unsubscribe(c)
    \/ \E t \in TaskIds : ListenerStart(t)
    \/ \E t \in TaskIds : StreamOpened(t)
    \/ \E t \in TaskIds : StreamOpenFailed(t)
    \/ \E t \in TaskIds : RecvError(t)
    \/ \E t \in TaskIds : SleepDone(t)
    \/ \E t \in TaskIds : Cancelled(t)

FanStart == FanInit /\ ExecQuiet /\ SchedQuiet /\ LedgerQuiet /\ PureQuiet

SpecFan == FanStart /\ [][FanNext]_vars

\* The handlers with an exchange client that may be missing or may fail to
\* be created, and listeners whose streams open and stay open.
StartupNext ==
    \/ \E c \in Clients, raw \in RawSymbols : Subscribe(c, raw)
    \/ \E c \in Clients : ClientCreated(c)
    \/ \E c \in Clients : ClientCreateFailed(c)
    \/ \E c \in Clients : CloseDone(c)
    \/ \E c \in Clients : ClientGone(c)
    \/ \E c \in Clients : Unsubscribe(c)
    \/ \E t \in TaskIds : ListenerStart(t)
    \/ \E t \in TaskIds : StreamOpened(t)
    \/ \E t \in TaskIds : Cancelled(t)

StartupStart == FanInit /\ ExecQuiet /\ SchedQuiet /\ LedgerQuiet /\ PureQuiet

SpecStartup == StartupStart /\ [][StartupNext]_vars

\* Message traffic with a healthy upstream: subscribers come and go while the
\* listeners receive and broadcast messages that carry 'stream'.
BroadcastInit == FanInit /\ api_keys /\ async_binance_client = "client"

BroadcastNext ==
    \/ \E c \in Clients, raw \in RawSymbols : Subscribe(c, raw)
    \/ \E c \in Clients : ClientGone(c)
    \/ \E c \in Clients : Unsubscribe(c)
    \/ \E t \in TaskIds : ListenerStart(t)
    \/ \E t \in TaskIds : StreamOpened(t)
    \/ \E t \in TaskIds : RecvMessage(t, TRUE)
    \/ \E t \in TaskIds, c \in Clients : Deliver(t, c)
    \/ \E t \in TaskIds : GatherDone(t)
    \/ \E t \in TaskIds : Cancelled(t)

BroadcastStart == BroadcastInit /\ ExecQuiet /\ SchedQuiet /\ LedgerQuiet /\ PureQuiet

SpecBroadcast == BroadcastStart /\ [][BroadcastNext]_vars

\* The ConnectionManager alone: any sequence of connect and disconnect calls,
\* for any websocket and any symbol in any letter case.
ConnectCall(c, raw) ==
    /\ wsOpen' = [wsOpen EXCEPT ![c] = TRUE]
    /\ active_connections' = ManagerConnect(active_connections, c, Upper(raw))
    /\ UNCHANGED <<binance_socket_tasks, async_binance_client, api_keys, hpc, hsym,
                   closeCode, tpc, tsym, must_cancel, bcast, ignored>>
    /\ UNCHANGED nonFanVars

DisconnectCall(c, raw) ==
    /\ active_connections' = ManagerDisconnect(active_connections, c, Upper(raw))
    /\ UNCHANGED <<binance_socket_tasks, async_binance_client, api_keys, hpc, hsym, wsOpen,
                   closeCode, tpc, tsym, must_cancel, bcast, ignored>>
    /\ UNCHANGED nonFanVars

ManagerNext ==
    \/ \E c \in Clients, raw \in RawSymbols : ConnectCall(c, raw)
    \/ \E c \in Clients, raw \in RawSymbols : DisconnectCall(c, raw)

ManagerStart == BroadcastInit /\ ExecQuiet /\ SchedQuiet /\ LedgerQuiet /\ PureQuiet

SpecManager == ManagerStart /\ [][ManagerNext]_vars

\* The same traffic, with upstream messages that carry no 'stream' as well.
TrafficNext ==
    \/ BroadcastNext
    \/ \E t \in TaskIds : RecvMessage(t, FALSE)

TrafficStart == BroadcastInit /\ ExecQuiet /\ SchedQuiet /\ LedgerQuiet /\ PureQuiet

SpecTraffic == TrafficStart /\ [][TrafficNext]_vars

\* One call of execute_trade.
ExecStart == BroadcastInit /\ ExecInit /\ SchedQuiet /\ LedgerQuiet /\ PureQuiet

SpecExec == ExecStart /\ [][ExecCall]_vars

\* One adjust_quantity_to_step_size call.  Quantities from 0.001 up to
\* MaxQuantity thousandths and whole quantities up to MaxQuantity; steps that
\* are powers of ten (0.001, 0.01, 0.1, 1, 10) and steps that are not.
MaxQuantity == 40

AdjQuantities == (1 .. MaxQuantity) \cup {q * Scale : q \in 1 .. MaxQuantity}

PowerOfTenSteps == {1, 10, 100, Scale, 10 * Scale}

AdjSteps == PowerOfTenSteps \cup {2, 5, 25, 250, 500, 2 * Scale, 5 * Scale, 25 * Scale}

AdjustInit ==
    /\ adj_in \in [quantity : AdjQuantities, step_size : AdjSteps]
    /\ adj_out = None

AdjustCall ==
    /\ adj_out = None
    /\ adj_in.quantity > 0
    /\ adj_out' = Some(adjust_quantity_to_step_size(adj_in.quantity, adj_in.step_size))
    /\ UNCHANGED <<adj_in, grid_config, grid_evals, engine_call, engine_result, info_log>>
    /\ UNCHANGED <<fanVars, execVars, schedVars, ledgerVars>>

AdjustStart ==
    BroadcastInit /\ ExecQuiet /\ SchedQuiet /\ LedgerQuiet /\ AdjustInit /\ GridQuiet /\ EngineQuiet
        /\ RulesQuiet

SpecAdjust == AdjustStart /\ [][AdjustCall]_vars

\* Evaluations of one grid bot, one after the other, as the prices move.
\* The grid of grid_bot.py's example (48000 to 52000, 5 lines), the same
\* limits with 2 and with 3 lines, and invalid configurations: the upper limit equal to
\* the lower one or missing, a single line, the number of lines missing.  Prices go
\* from 47000 up in steps of 500.
MaxGridSteps == 12

GridPrices == {(47000 + 500 * k) * Scale : k \in 0 .. MaxGridSteps}

test_config_grid ==
    [symbol |-> "BTCUSDT", upper_limit |-> Some(52000 * Scale),
     lower_limit |-> Some(48000 * Scale), num_grids |-> Some(5)]

GridConfigs ==
    [symbol : {"BTCUSDT"}, upper_limit : {Some(52000 * Scale), Some(48000 * Scale), None},
     lower_limit : {Some(48000 * Scale)}, num_grids : {Some(1), Some(2), Some(3), Some(5), None}]

GridInit == grid_config \in GridConfigs /\ grid_evals = << >>

\* The last two evaluations are kept.
LastTwo(evals) == IF Len(evals) <= 2 THEN evals ELSE Tail(evals)

\* One get_grid_actions call.  The engine takes the configuration and the
\* price, and nothing of what it returned before.
GridEvaluate(current_price) ==
    /\ grid_config # << >>
    /\ LET result == get_grid_actions(grid_config, current_price)
       IN  grid_evals' = LastTwo(Append(grid_evals,
                             [price |-> current_price, raised |-> result.raised,
                              actions |-> result.actions]))
    /\ UNCHANGED <<grid_config, adj_in, adj_out, engine_call, engine_result, info_log>>
    /\ UNCHANGED <<fanVars, execVars, schedVars, ledgerVars>>

GridStart ==
    BroadcastInit /\ ExecQuiet /\ SchedQuiet /\ LedgerQuiet /\ AdjustQuiet /\ GridInit /\ EngineQuiet
        /\ RulesQuiet

SpecGrid == GridStart /\ [][\E current_price \in GridPrices : GridEvaluate(current_price)]_vars

\* Calls of the strategy functions, one call in a behaviour.
\* DCA settings: base amount 100.0 or missing; frequency daily, hourly,
\* monthly (which should_invest_now does not know) or missing; smart dip 5 % with multiplier 1.5 or none; the moving average
\* named in lower case, in upper case, unsupported, or null; trailing stop
\* 10 %, 0 or none.
DcaConfigs ==
    [symbol : {"ETHUSDT"},
     investment_amount : {None, Some(100 * Scale)},
     frequency : {None, Some("daily"), Some("hourly"), Some("monthly")},
     smart_dip_pct : {None, Some(5)},
     smart_dip_multiplier : {1500},
     smart_dip_ma_type : {Some("sma"), Some("EMA"), Some("wma"), None},
     trailing_stop_pct : {None, Some(0), Some(10)}]

\* DCA states: no investment yet or one at hour 0; no position, or a position
\* bought at 3000 on average whose highest price since was 3500.
DcaStates ==
    [last_investment_time : {None, Some(0)},
     average_purchase_price : {None}, highest_price_since_purchase : {None},
     position_active : {FALSE}]
        \cup [last_investment_time : {None, Some(0)},
              average_purchase_price : {Some(3000 * Scale)},
              highest_price_since_purchase : {Some(3500 * Scale)},
              position_active : {TRUE}]

\* Markets of a DCA call: the ticker at 3140, 3150 or 3200, or failing; the
\* daily candles giving a moving average of 3300 or 3400, none, or failing.
DcaCallMarkets ==
    [ticker : [kind : {"price"}, price : {3140 * Scale, 3150 * Scale, 3200 * Scale}]
                  \cup {[kind |-> "error", price |-> 0]},
     klines : [kind : {"rows"}, last_ma : {3300 * Scale, 3400 * Scale}]
                  \cup [kind : {"none", "error"}, last_ma : {0}]]

\* The hours at which a DCA call is made: 2 hours and 2 days after hour 0.
DcaCallHours == {2, 48}

DcaCalls ==
    [fn : {"get_dca_actions"}, config : DcaConfigs, mk : DcaCallMarkets, state : DcaStates,
     now_h : DcaCallHours]

DcaCall ==
    /\ engine_call.fn = "get_dca_actions"
    /\ engine_result = None
    /\ engine_result' = Some(get_dca_actions(engine_call.config, engine_call.mk,
                                             engine_call.state, engine_call.now_h))
    /\ UNCHANGED <<engine_call, adj_in, adj_out, grid_config, grid_evals, info_log>>
    /\ UNCHANGED <<fanVars, execVars, schedVars, ledgerVars>>

\* Momentum settings: the default RSI thresholds (30 and 70) or 40 and 60.
MomentumConfigs ==
    { [symbol |-> "btcusdt"],
      [symbol |-> "btcusdt", rsi_oversold |-> 40, rsi_overbought |-> 60] }

\* The MACD line and its signal line; the histogram is their difference.
MacdPairs == {<<1, 2>>, <<2, 1>>, <<1, 1>>}

\* The last two valid rows: the short average below, at or above the long
\* one (10) in each, RSI values around the thresholds.
MomentumRows ==
    [kind : {"rows"},
     prev : {KlineRow(sh, 10, 50, 1, 1, 0) : sh \in {9, 10, 11}},
     latest : {KlineRow(sh, 10, rsi, m[1], m[2], m[1] - m[2]) :
                  sh \in {9, 10, 11}, rsi \in {25, 30, 35, 50, 65, 70, 75}, m \in MacdPairs}]

\* What else the fetch and the indicators may give: no klines, fewer than two
\* valid rows, a BinanceAPIException, any other exception.
MomentumFailures ==
    [kind : {"empty", "short", "api_error", "error"},
     prev : {KlineRow(0, 0, 0, 0, 0, 0)}, latest : {KlineRow(0, 0, 0, 0, 0, 0)}]

MomentumCalls ==
    [fn : {"get_momentum_signal"}, config : MomentumConfigs,
     mk : MomentumRows \cup MomentumFailures]

MomentumCall ==
    /\ engine_call.fn = "get_momentum_signal"
    /\ engine_result = None
    /\ engine_result' = Some(get_momentum_signal(engine_call.config, engine_call.mk))
    /\ UNCHANGED <<engine_call, adj_in, adj_out, grid_config, grid_evals, info_log>>
    /\ UNCHANGED <<fanVars, execVars, schedVars, ledgerVars>>

\* should_invest_now calls: the supported frequencies and one that is not,
\* no investment yet or one at hour 0 or 5, and the clock at any hour up to
\* MaxHours, which is past a week.
MaxHours == 180

InvestCalls ==
    [fn : {"should_invest_now"}, frequency : {"hourly", "daily", "weekly", "monthly"},
     last_investment_time : {None, Some(0), Some(5)}, now_h : 5 .. MaxHours]

InvestCall ==
    /\ engine_call.fn = "should_invest_now"
    /\ engine_result = None
    /\ engine_result' = Some(should_invest_now(engine_call.frequency,
                                               engine_call.last_investment_time,
                                               engine_call.now_h))
    /\ UNCHANGED <<engine_call, adj_in, adj_out, grid_config, grid_evals, info_log>>
    /\ UNCHANGED <<fanVars, execVars, schedVars, ledgerVars>>

RECURSIVE SimRows(_, _, _)
\* One simulated trade row for every action that is a buy or a sell.
SimRows(kinds, symbol, bot_id) ==
    IF kinds = << >> THEN << >>
    ELSE LET rest == SimRows(Tail(kinds), symbol, bot_id)
             row(action) == [bot_id |-> bot_id, symbol |-> Upper(symbol), action |-> action,
                             price |-> 0, quantity |-> Scale]
         IN  CASE Head(kinds) \in {"BUY", "DCA_BUY", "SMART_DIP_BUY"} ->
                      << row("SIM_BUY") >> \o rest
               [] Head(kinds) \in {"SELL", "TRAILING_STOP_SELL"} -> << row("SIM_SELL") >> \o rest
               [] OTHER -> rest

\* A faulty engine: it records its simulated trades whether or not it was
\* handed a session and a bot id.
RecordsWithoutSession(kinds, symbol, db, bot_id) == SimRows(kinds, symbol, 0)

\* The trade rows an engine writes for its actions: momentum_bot.py lines
\* 125-140 and record_simulated_trade of dca_bot.py: rows are written only
\* if a session and a bot id were handed in (both are optional).
simulated_trades(kinds, symbol, db, bot_id) ==
    IF db = None \/ bot_id = None THEN << >> ELSE SimRows(kinds, symbol, The(bot_id))

RECURSIVE ActionNames(_)
ActionNames(actions) ==
    IF actions = << >> THEN << >> ELSE << Head(actions).action >> \o ActionNames(Tail(actions))

\* get_bot_status: what the endpoint answers and the trade rows written
\* under it.  The engines are called with the configuration and the client
\* only, so they get neither session nor bot id.  bot is None when
\* get_bot_config finds no bot of the user.
get_bot_status(bot, client, mk) ==
    IF bot = None THEN [http |-> 404, status |-> "-", rows |-> << >>]
    ELSE IF client = "None" THEN [http |-> 503, status |-> "-", rows |-> << >>]
    ELSE
    LET db_bot == The(bot)
        config == db_bot.settings
        symbol == Get(config, "symbol", "UNKNOWN")
    IN  CASE db_bot.bot_type = "momentum" ->
                 LET signal == get_momentum_signal(config, mk.momentum)
                 IN  [http |-> 200, status |-> "signal_generated",
                      rows |-> simulated_trades(<< signal >>, symbol, None, None)]
          [] db_bot.bot_type = "grid" ->
                 IF mk.ticker.kind # "price" \/ get_grid_actions(config, mk.ticker.price).raised
                 THEN [http |-> 200, status |-> "error", rows |-> << >>]
                 ELSE [http |-> 200, status |-> "grid_state", rows |-> << >>]
          [] db_bot.bot_type = "dca" ->
                 LET result == get_dca_actions(config, mk.dca, dca_state, 0)
                 IN  IF result.raised
                     THEN [http |-> 200, status |-> "error", rows |-> << >>]
                     ELSE [http |-> 200, status |-> "dca_state",
                           rows |-> simulated_trades(ActionNames(result.actions), symbol,
                                                     None, None)]
          [] OTHER -> [http |-> 200, status |-> "unsupported_type", rows |-> << >>]

\* Status requests: for a bot of each type or for none (id 0), with or
\* without a client, in the markets of a tick.
StatusCalls ==
    [fn : {"get_bot_status"}, bot_id : 0 .. NumBots, client : {"client", "None"},
     mk : [momentum : MomentumMarkets, ticker : GridTickers, dca : DcaMarkets]]

\* crud_bot_config.get_bot_config
get_bot_config(bot_id) ==
    IF bot_id \in DOMAIN bot_configurations THEN Some(bot_configurations[bot_id]) ELSE None

StatusCall ==
    /\ engine_call.fn = "get_bot_status"
    /\ engine_result = None
    /\ LET answer == get_bot_status(get_bot_config(engine_call.bot_id), engine_call.client,
                                    engine_call.mk)
       IN  /\ engine_result' = Some([http |-> answer.http, status |-> answer.status])
           /\ trade_history' = trade_history \o answer.rows
    /\ UNCHANGED <<engine_call, adj_in, adj_out, grid_config, grid_evals, info_log>>
    /\ UNCHANGED <<exchange_orders, dca_emitted, fanVars, execVars, schedVars>>

EngineInit ==
    /\ engine_call \in DcaCalls \cup MomentumCalls \cup InvestCalls \cup StatusCalls
    /\ engine_result = None

EngineNext ==
    \/ DcaCall
    \/ MomentumCall
    \/ InvestCall
    \/ StatusCall

EngineStart ==
    BroadcastInit /\ ExecQuiet /\ SchedQuiet /\ LedgerQuiet /\ AdjustQuiet /\ GridQuiet /\ EngineInit
        /\ RulesQuiet

SpecEngine == EngineStart /\ [][EngineNext]_vars

\* Calls of get_symbol_info, one after the other, in one process: the cache
\* starts empty and lives as long as the process.
MaxLookups == 3

\* The gateway's answers in these calls: the rules of a symbol with or without
\* a step size, no rules, or an exception.
RulesResponses ==
    {r \in InfoResponses :
        r.kind = "info" => r.info.tickSize = None /\ r.info.minNotional = None}

\* get_symbol_info(client, symbol): resp is what the gateway answers if asked.
RulesLookup(symbol, resp) ==
    /\ Len(info_log) < MaxLookups
    /\ LET lookup == get_symbol_info(symbol_info_cache, Upper(symbol), resp)
       IN  /\ symbol_info_cache' = lookup.cache
           /\ info_log' = Append(info_log,
                               [symbol |-> symbol, calls |-> lookup.calls,
                                raised |-> lookup.raised, info |-> lookup.info])
    /\ UNCHANGED <<xin, xout, adj_in, adj_out, grid_config, grid_evals, engine_call,
                   engine_result>>
    /\ UNCHANGED <<fanVars, schedVars, ledgerVars>>

RulesNext == \E symbol \in RawSymbols, resp \in RulesResponses : RulesLookup(symbol, resp)

RulesStart ==
    BroadcastInit /\ ExecQuiet /\ SchedQuiet /\ LedgerQuiet /\ AdjustQuiet /\ GridQuiet
        /\ EngineQuiet /\ RulesQuiet

SpecRules == RulesStart /\ [][RulesNext]_vars

\* The scheduler and its ticks.
SchedNext ==
    \/ Advance
    \/ ProcessJobs
    \/ \E r \in pending : JobMissed(r)
    \/ \E r \in pending : TickWithoutClient(r)
    \/ \E r \in pending : TickStart(r)
    \/ \E r \in pending : TickFetchFailed(r)
    \/ \E mk \in MomentumMarkets, e \in TickWorlds : MomentumStep(mk, e)
    \/ \E tk \in GridTickers : GridStep(tk)
    \/ \E mk \in DcaMarkets : DcaStep(mk)
    \/ OtherTypeStep
    \/ BotLoadFailed
    \/ TickEnd

SchedStart == BroadcastInit /\ ExecQuiet /\ SchedInit /\ LedgerQuiet /\ PureQuiet

SpecSched == SchedStart /\ [][SchedNext]_vars

Init ==
    FanInit /\ ExecInit /\ SchedInit /\ LedgerQuiet /\ AdjustInit /\ GridInit /\ EngineQuiet
        /\ RulesQuiet

Next ==
    \/ FanNext
    \/ TrafficNext
    \/ ExecCall
    \/ SchedNext
    \/ AdjustCall
    \/ \E current_price \in GridPrices : GridEvaluate(current_price)
    \/ EngineNext
    \/ RulesNext
    \/ ManagerNext

Spec == Init /\ [][Next]_vars

(***************************************************************************)
(* Properties of the fan-out service.                                      *)
(***************************************************************************)
\* A listener task that was started, has not finished and has no cancellation
\* pending.
Running(t) == tpc[t] \in {"created", "connect", "recv", "gather", "sleep"} /\ ~must_cancel[t]

ListenersOf(s) == {t \in TaskIds : Running(t) /\ tsym[t] = s}

\* Websockets whose handler sits in its receive loop for symbol s.
SubscribersOf(s) == {c \in Clients : hpc[c] = "receive" /\ hsym[c] = s}

\* C1: at most one running upstream listener task exists per symbol at any
\* time (tasks whose cancellation is pending are not even counted).
C1_AtMostOneListenerPerSymbol ==
    \A s \in Symbols : Cardinality(ListenersOf(s)) <= 1

\* C5: whenever two clients are subscribed to the same symbol, exactly one
\* upstream listener serves it.
C5_TwoSubscribersOneListener ==
    \A s \in Symbols :
        Cardinality(SubscribersOf(s)) >= 2 => Cardinality(ListenersOf(s)) = 1

\* No handler of symbol s is between two of its steps and no listener of s has
\* a cancellation pending or is still to take its first step.
Settled(s) ==
    /\ \A c \in Clients : hsym[c] = s => hpc[c] = "receive"
    /\ \A t \in TaskIds : tsym[t] = s => ~must_cancel[t] /\ tpc[t] # "created"

\* C6: a symbol has an upstream listener if and only if at least one
\* subscription exists for it (compared once the symbol's handlers and
\* listeners are settled).
C6_ListenerIffSubscription ==
    \A s \in Symbols :
        Settled(s) => (ListenersOf(s) # {} <=> s \in DOMAIN active_connections)

\* C9: a listener task terminates only as a result of the cancellation issued
\* when the last subscriber leaves; a stream or connection failure never ends
\* it.
C9_TerminatesOnlyByCancellation ==
    \A t \in TaskIds : tpc[t] # "done_error"

\* C7: for every broadcast, delivery is attempted to every subscriber that was
\* registered for the symbol when the broadcast started, and every such
\* subscriber whose websocket is open has received the message once its send
\* was attempted, whatever happened to the other sends.
C7_DeliveryToAllLiveSubscribers ==
    \A t \in TaskIds :
        tpc[t] = "gather" =>
            /\ bcast[t].delivered \cup bcast[t].failed \cup bcast[t].pending
                   = bcast[t].snapshot
            /\ \A c \in bcast[t].snapshot \ bcast[t].pending :
                   wsOpen[c] => c \in bcast[t].delivered

\* A broadcast whose sends are all finished, where one send failed on a
\* websocket that was gone and two open subscribers received the message.
C7_Witness ==
    \E t \in TaskIds :
        /\ tpc[t] = "gather"
        /\ bcast[t].pending = {}
        /\ bcast[t].failed # {}
        /\ Cardinality({c \in bcast[t].delivered : wsOpen[c]}) >= 2

\* C8: when broadcast_to_symbol returns, no subscriber to which the delivery
\* failed is left in the symbol's subscriber set.
C8_FailedSubscriberDropped ==
    [][\A t \in TaskIds :
          (tpc[t] = "gather" /\ tpc'[t] = "recv") =>
              bcast[t].failed \cap BroadcastTargets(active_connections', tsym[t]) = {}]_vars

\* What the exchange values an order at: the quote amount when the order is
\* sized by quote currency, else quantity x price, the price being the limit
\* price of a LIMIT order and the market price of a MARKET order.
\* (Scale x Scale units.)
SubmittedNotional(params, market_price) ==
    IF params.quoteOrderQty # None THEN The(params.quoteOrderQty) * Scale
    ELSE The(params.quantity) * (IF params.price # None THEN The(params.price) ELSE market_price)

\* The symbol's minimum notional as execute_trade reads it (lines 103-106).
MinNotionalOf(cache, symbol_upper) ==
    IF symbol_upper \in DOMAIN cache /\ cache[symbol_upper].minNotional # None
    THEN The(cache[symbol_upper].minNotional)
    ELSE DefaultMinNotional

\* C3: execute_trade never submits an order whose notional is above zero and
\* below the symbol's minimum notional, MARKET orders sized by base quantity
\* included.
C3_NoOrderBelowMinNotional ==
    \A o \in xout :
        o.params # None =>
            LET n == SubmittedNotional(The(o.params), xin.e.ticker.price)
            IN  ~ (0 < n /\ n < MinNotionalOf(o.cache, Upper(xin.a.symbol)) * Scale)


\* The runs of the job that have started and not ended.
InFlight == {i \in DOMAIN tick_runs : ~tick_runs[i].ended}

\* C2: ticks never run concurrently, a tick that starts runs no later than
\* the 30 s grace time after its fire time, a fire time that was skipped as
\* a misfire is never run, and no fire time is run twice.
C2_TicksSerialAndMisfiresSkipped ==
    /\ Cardinality(InFlight) <= 1
    /\ \A i \in DOMAIN tick_runs :
          /\ tick_runs[i].started - tick_runs[i].run_time <= misfire_grace_time
          /\ tick_runs[i].run_time \notin missed
          /\ \A j \in DOMAIN tick_runs : tick_runs[j].run_time = tick_runs[i].run_time => j = i

\* A fire time was skipped as a misfire and a later one was run, late but
\* within the grace time, through all of its bots.
C2_Witness ==
    \E r \in missed : \E i \in DOMAIN tick_runs :
        /\ tick_runs[i].run_time > r
        /\ tick_runs[i].started > tick_runs[i].run_time
        /\ tick_runs[i].ended
        /\ i = Len(tick_runs)
        /\ Len(bot_log) = NumBots

\* C4: an error while one bot is processed never keeps the other bots of the
\* tick from being processed: a tick that fetched its bots and returned has
\* gone through every one of them.
C4_EveryBotProcessed ==
    job_pc = "idle" => Len(bot_log) = Len(active_bots)

\* C10: every actionable intent an engine returns (momentum, grid or DCA)
\* leads to an execute_trade call in the same bot iteration.
C10_IntentsExecuted ==
    \A i \in DOMAIN bot_log : bot_log[i].intents # {} => bot_log[i].executed


\* The seconds of a DCA frequency (should_invest_now's delta).
FrequencySeconds(frequency) ==
    CASE frequency = "hourly" -> 3600
      [] frequency = "daily" -> 24 * 3600
      [] frequency = "weekly" -> 7 * 24 * 3600

\* C11: after a tick in which a DCA bot emitted DCA_BUY, a later tick that
\* starts before the bot's frequency has elapsed does not emit DCA_BUY for it
\* again.
C11_DcaBuyOncePerPeriod ==
    \A a, b \in dca_emitted :
        (a.id = b.id /\ a.tick < b.tick) =>
            tick_runs[b.tick].started - tick_runs[a.tick].started
                >= FrequencySeconds(The(bot_configurations[a.id].settings.frequency))


\* C12: when the exchange client is unavailable, a tick is skipped whole: it
\* loads no bot configuration, evaluates no engine, asks the exchange for
\* nothing, submits no order and writes no trade record.
C12_TickSkippedWithoutClient ==
    binance_client = "None" =>
        /\ job_pc = "idle"
        /\ active_bots = << >>
        /\ bot_log = << >>
        /\ symbol_info_cache = << >>
        /\ exchange_orders = << >>
        /\ trade_history = << >>
        /\ dca_emitted = {}
        /\ db_session = "closed"

\* Two ticks have started without a client and returned.
C12_Witness ==
    /\ binance_client = "None"
    /\ Len(tick_runs) >= 2
    /\ \A i \in DOMAIN tick_runs : tick_runs[i].ended


\* The call placed its order: create_order was called and returned a response.
OrderPlaced(o) == o.params # None /\ xin.e.order.kind = "ok"

C14_ReturnsOrderIffPlaced ==
    \A o \in xout :
        /\ OrderPlaced(o) => o.ret = "order"
        /\ o.ret = "None" => ~OrderPlaced(o)

\* What execute_trade returns when it placed no order: the result the caller
\* reads as "trade execution failed".
NotPlacedResult == "None"

\* C15: a failure to write the trade record after an order was placed is
\* surfaced to the caller as a persistence failure: the call does not raise,
\* and its result differs from the result of a call that placed no order.
C15_PersistenceFailureSurfaced ==
    \A o \in xout :
        o.commit = "error" => o.ret # "raised" /\ o.ret # NotPlacedResult


\* The create_order calls the current tick made for a bot, and the bot
\* iterations of the tick that called execute_trade for it.
OrdersOf(id) == {i \in DOMAIN exchange_orders : exchange_orders[i].bot_id = id}

ExecutionsOf(id) == {i \in DOMAIN bot_log : bot_log[i].id = id /\ bot_log[i].executed}

\* C16: no retry within a tick: the tick calls execute_trade at most once for
\* a bot, and the exchange gets at most one create_order call for every
\* execute_trade call, so at most one order per bot and tick.
C16_NoRetryWithinTick ==
    \A id \in 1..NumBots :
        /\ Cardinality(ExecutionsOf(id)) <= 1
        /\ Cardinality(OrdersOf(id)) <= Cardinality(ExecutionsOf(id))

\* An order of the tick was submitted and failed, and was not submitted again.
C16_Witness ==
    \E i \in DOMAIN bot_log :
        /\ bot_log[i].executed
        /\ bot_log[i].ret = "None"
        /\ Cardinality(OrdersOf(bot_log[i].id)) = 1
        /\ job_pc = "idle"


\* C17: for every positive quantity q and positive step s, powers of ten or
\* not, adjust_quantity_to_step_size(q, s) is at most q, is a multiple of s,
\* and is a fixed point of the function.
C17_AdjustedQuantityOnStep ==
    \A r \in adj_out :
        /\ r <= adj_in.quantity
        /\ r % adj_in.step_size = 0
        /\ adjust_quantity_to_step_size(r, adj_in.step_size) = r


\* The quantity execute_trade goes on with: floored to the step size when the
\* symbol's rules carry one, as given when they do not (lines 116-124).
NormalizedQuantity(quantity, step_size) ==
    IF step_size # None THEN adjust_quantity_to_step_size(quantity, The(step_size))
    ELSE quantity

\* C18: whenever a base quantity is given and its value after normalization
\* to the step size is 0 or less, the call is rejected before submission:
\* create_order is not called and no trade record is written.
C18_ZeroQuantityRejected ==
    \A o \in xout :
        LET symbol_upper == Upper(xin.a.symbol)
        IN  ( /\ xin.a.quantity # None
              /\ symbol_upper \in DOMAIN o.cache
              /\ NormalizedQuantity(The(xin.a.quantity), o.cache[symbol_upper].stepSize) <= 0 )
            => o.params = None /\ o.records = << >>


\* The call could not resolve the symbol's trading rules: they were not
\* cached and the request for them gave none (unknown symbol) or failed.
RulesUnavailable(o) ==
    /\ xin.a.client
    /\ Upper(xin.a.symbol) \notin DOMAIN o.cache
    /\ xin.e.info.kind # "info"

\* C19: if the trading rules of the symbol cannot be resolved (the symbol is
\* unknown or the fetch fails), execute_trade gives its failure result, submits
\* no order and does not raise to its caller.
C19_RulesUnavailableAborts ==
    \A o \in xout :
        RulesUnavailable(o) => o.ret = NotPlacedResult /\ o.params = None /\ o.records = << >>


\* An action of the given kind at the given price is among an evaluation's
\* actions.
HasAction(actions, kind, price) ==
    \E i \in DOMAIN actions : actions[i].action = kind /\ actions[i].price = price

\* C20: with grid levels 48000, 49000, 50000, 51000, 52000, an evaluation at
\* price 47500 yields a BUY at 48000, and the evaluation that follows it at
\* price 49500, with that buy open, yields a SELL at 49000.
C20_BuyThenSellOneLevelUp ==
    ( /\ grid_config = test_config_grid
      /\ Len(grid_evals) = 2
      /\ grid_evals[1].price = 47500 * Scale
      /\ grid_evals[2].price = 49500 * Scale )
    => /\ HasAction(grid_evals[1].actions, "BUY", 48000 * Scale)
       /\ HasAction(grid_evals[2].actions, "SELL", 49000 * Scale)


\* The grid levels for which an evaluation's actions hold an action of the
\* given kind.
LevelsOf(actions, kind) ==
    {actions[i].grid_level : i \in {j \in DOMAIN actions : actions[j].action = kind}}

\* C21: across successive evaluations of one grid bot, a level that produced a
\* BUY produces no further BUY until a matching SELL closed it, and a SELL is
\* emitted for a level only when a buy is open at the level directly below:
\* the first evaluation of a bot emits no SELL, and a level bought in one
\* evaluation is not bought again in the next unless that one sells.
C21_GridLevelsTracked ==
    /\ Len(grid_evals) = 1 => LevelsOf(grid_evals[1].actions, "SELL") = {}
    /\ Len(grid_evals) = 2 =>
           \A l \in LevelsOf(grid_evals[1].actions, "BUY") :
               l \in LevelsOf(grid_evals[2].actions, "BUY") =>
                   LevelsOf(grid_evals[2].actions, "SELL") # {}


\* A grid configuration is invalid: a limit or the number of lines is missing,
\* the upper limit is not above the lower one, or there are fewer than 2 lines.
InvalidGridConfig(config) ==
    \/ Get(config, "upper_limit", None) = None
    \/ Get(config, "lower_limit", None) = None
    \/ Get(config, "num_grids", None) = None
    \/ The(config.upper_limit) <= The(config.lower_limit)
    \/ The(config.num_grids) < 2

\* C22: for every invalid grid configuration get_grid_actions returns an empty
\* list and does not raise.
C22_InvalidGridConfigYieldsNothing ==
    InvalidGridConfig(grid_config) =>
        \A i \in DOMAIN grid_evals :
            ~grid_evals[i].raised /\ grid_evals[i].actions = << >>


(***************************************************************************)
(* Properties of the DCA engine.                                           *)
(***************************************************************************)
\* A get_dca_actions call that came to its checks: it returned, its
\* settings hold the base amount and the frequency, and the ticker answered.
DcaEvaluated(r) ==
    /\ engine_call.fn = "get_dca_actions"
    /\ ~r.raised
    /\ engine_call.config.investment_amount # None
    /\ engine_call.config.frequency # None
    /\ engine_call.mk.ticker.kind = "price"

\* The conditions of the call, read off its arguments: the trailing stop (a
\* position, a positive percentage, the price below highest * (1 - pct/100)),
\* the regular investment (none made yet, or the period has passed), the
\* smart dip (configured, the moving average known, the price below
\* ma * (1 - pct/100)).
StopFires ==
    /\ engine_call.state.position_active
    /\ engine_call.config.trailing_stop_pct \notin {None, Some(0)}
    /\ engine_call.mk.ticker.price * 100
           < The(engine_call.state.highest_price_since_purchase)
                 * (100 - The(engine_call.config.trailing_stop_pct))

PeriodHours == [daily |-> 24, hourly |-> 1, weekly |-> 7 * 24]

InvestmentDue ==
    \/ engine_call.state.last_investment_time = None
    \/ /\ The(engine_call.config.frequency) \in DOMAIN PeriodHours
       /\ engine_call.now_h - The(engine_call.state.last_investment_time)
              >= PeriodHours[The(engine_call.config.frequency)]

DipFires ==
    /\ engine_call.config.smart_dip_pct # None
    /\ engine_call.mk.klines.kind = "rows"
    /\ engine_call.config.smart_dip_ma_type \in {Some("sma"), Some("EMA")}
    /\ engine_call.mk.ticker.price * 100
           < engine_call.mk.klines.last_ma * (100 - The(engine_call.config.smart_dip_pct))

DcaActionAt(kind, amount) ==
    [action |-> kind, amount |-> amount, price |-> Some(engine_call.mk.ticker.price)]

\* C23: the DCA engine applies its checks in a fixed priority: a trailing stop
\* that fires gives exactly one TRAILING_STOP_SELL and nothing else; otherwise
\* a due regular investment gives DCA_BUY for the base amount; a SMART_DIP_BUY
\* for the base amount times the multiplier comes only when no regular buy is
\* due; and when nothing fires the result is a single HOLD.
C23_DcaPriority ==
    \A r \in engine_result :
        DcaEvaluated(r) =>
            r.actions =
                IF StopFires THEN << DcaActionAt("TRAILING_STOP_SELL", None) >>
                ELSE IF InvestmentDue
                THEN << DcaActionAt("DCA_BUY", engine_call.config.investment_amount) >>
                ELSE IF DipFires
                THEN << DcaActionAt("SMART_DIP_BUY",
                            Some((The(engine_call.config.investment_amount)
                                     * engine_call.config.smart_dip_multiplier) \div Scale)) >>
                ELSE << DcaActionAt("HOLD", None) >>

\* The stop fired although a regular investment was due and the price was in
\* a dip: the sell came alone.
C23_Witness ==
    \E r \in engine_result :
        /\ DcaEvaluated(r)
        /\ StopFires
        /\ InvestmentDue
        /\ engine_call.config.smart_dip_pct # None
        /\ Len(r.actions) = 1


\* An upstream failure or a missing required parameter of a DCA call: the
\* base amount or the frequency is missing, or the ticker fetch fails.  (A
\* failing candle fetch leaves the smart dip out and is met by C23's HOLD.)
DcaFailure ==
    /\ engine_call.fn = "get_dca_actions"
    /\ \/ engine_call.config.investment_amount = None
       \/ engine_call.config.frequency = None
       \/ engine_call.mk.ticker.kind # "price"

\* C24: for the momentum and the DCA engine every upstream data failure and
\* every missing required parameter gives HOLD, and no exception leaves
\* get_momentum_signal or get_dca_actions.
C24_EnginesDegradeToHold ==
    \A r \in engine_result :
        /\ engine_call.fn = "get_momentum_signal" =>
               (engine_call.mk.kind # "rows" => r = "HOLD")
        /\ engine_call.fn = "get_dca_actions" =>
               /\ ~r.raised
               /\ DcaFailure => ActionsOf(r.actions) = {"HOLD"}


\* The hours since the last investment of a should_invest_now call.
Elapsed == engine_call.now_h - The(engine_call.last_investment_time)

\* C25: should_invest_now returns true when there is no previous investment,
\* and otherwise true exactly when the time since last_investment_time is at
\* least the period of the frequency (hourly, daily, weekly); for daily, 2
\* days give true and 2 hours give false.
C25_InvestWhenPeriodElapsed ==
    \A r \in engine_result :
        (engine_call.fn = "should_invest_now" /\ engine_call.frequency \in DOMAIN PeriodHours) =>
            /\ engine_call.last_investment_time = None => r = TRUE
            /\ engine_call.last_investment_time # None =>
                   /\ r = (Elapsed >= PeriodHours[engine_call.frequency])
                   /\ (engine_call.frequency = "daily" /\ Elapsed = 48) => r = TRUE
                   /\ (engine_call.frequency = "daily" /\ Elapsed = 2) => r = FALSE

\* A daily investment was found due exactly one day after the last one.
C25_Witness ==
    \E r \in engine_result :
        /\ engine_call.fn = "should_invest_now"
        /\ engine_call.frequency = "daily"
        /\ engine_call.last_investment_time = Some(5)
        /\ Elapsed = 24
        /\ r = TRUE


\* A DCA call that came to its checks with an active position and a trailing
\* stop of a positive percentage.
StopArmed(r) ==
    /\ DcaEvaluated(r)
    /\ engine_call.state.position_active
    /\ engine_call.config.trailing_stop_pct \notin {None, Some(0)}

\* C26: with an active position the trailing stop fires exactly when the
\* price is strictly below highest_price_since_purchase * (1 - pct/100): for
\* a highest price of 3500 and 10 % the stop is 3150, a price of 3140 gives
\* TRAILING_STOP_SELL and a price of 3200 (or of 3150) does not.
C26_TrailingStopBelowStopPrice ==
    \A r \in engine_result :
        StopArmed(r) =>
            LET price == engine_call.mk.ticker.price
                highest == The(engine_call.state.highest_price_since_purchase)
                pct == The(engine_call.config.trailing_stop_pct)
                sold == "TRAILING_STOP_SELL" \in ActionsOf(r.actions)
            IN  /\ sold <=> price * 100 < highest * (100 - pct)
                /\ (highest = 3500 * Scale /\ pct = 10) =>
                       /\ price = 3140 * Scale => sold
                       /\ price \in {3150 * Scale, 3200 * Scale} => ~sold

\* The price stood exactly at the stop price of 3150 and nothing was sold.
C26_Witness ==
    \E r \in engine_result :
        /\ StopArmed(r)
        /\ engine_call.mk.ticker.price = 3150 * Scale
        /\ The(engine_call.state.highest_price_since_purchase) = 3500 * Scale
        /\ engine_call.config.trailing_stop_pct = Some(10)
        /\ "TRAILING_STOP_SELL" \notin ActionsOf(r.actions)


(***************************************************************************)
(* Properties of the momentum engine.                                      *)
(***************************************************************************)
\* The conditions of a momentum call, read off its two rows and thresholds.
BuyConditions ==
    LET prev == engine_call.mk.prev
        latest == engine_call.mk.latest
    IN  /\ prev.sma_short <= prev.sma_long
        /\ latest.sma_short > latest.sma_long
        /\ latest.macd > latest.macds
        /\ latest.macdh > 0
        /\ latest.rsi < Get(engine_call.config, "rsi_overbought", 70)

SellConditions ==
    LET prev == engine_call.mk.prev
        latest == engine_call.mk.latest
    IN  /\ prev.sma_short >= prev.sma_long
        /\ latest.sma_short < latest.sma_long
        /\ latest.macd < latest.macds
        /\ latest.macdh < 0
        /\ latest.rsi > Get(engine_call.config, "rsi_oversold", 30)

\* C27: the momentum engine returns BUY exactly when the short average
\* crosses above the long one between the last two valid rows, the MACD line
\* is above its signal line, the histogram is positive and the RSI is below
\* the overbought threshold; SELL exactly when the mirrored conditions hold;
\* HOLD otherwise; and the two sets of conditions never hold together.
C27_MomentumSignal ==
    \A r \in engine_result :
        (engine_call.fn = "get_momentum_signal" /\ engine_call.mk.kind = "rows") =>
            /\ r = "BUY" <=> BuyConditions
            /\ r = "SELL" <=> SellConditions
            /\ r = "HOLD" <=> ~BuyConditions /\ ~SellConditions
            /\ ~(BuyConditions /\ SellConditions)

\* The averages crossed upward with a bullish MACD, but the RSI stood at the
\* overbought threshold: HOLD.
C27_Witness ==
    \E r \in engine_result :
        /\ engine_call.fn = "get_momentum_signal"
        /\ engine_call.mk.kind = "rows"
        /\ engine_call.mk.prev.sma_short <= engine_call.mk.prev.sma_long
        /\ engine_call.mk.latest.sma_short > engine_call.mk.latest.sma_long
        /\ engine_call.mk.latest.macdh > 0
        /\ engine_call.mk.latest.rsi = Get(engine_call.config, "rsi_overbought", 70)
        /\ r = "HOLD"


(***************************************************************************)
(* Properties of the status endpoint.                                      *)
(***************************************************************************)
\* C28: get_bot_status is read-only: for every bot type and every outcome,
\* engine errors included, it submits no order, writes no trade record and
\* changes nothing of what the ticks and the executor keep.
C28_StatusReadOnly ==
    [][engine_call.fn = "get_bot_status" =>
           UNCHANGED <<exchange_orders, trade_history, dca_emitted, symbol_info_cache,
                       db_session, active_bots, bot_log>>]_vars

\* A status request for a momentum bot was answered with a BUY or SELL signal
\* in force, and no trade row was written.
C28_Witness ==
    \E r \in engine_result :
        /\ engine_call.fn = "get_bot_status"
        /\ r.status = "signal_generated"
        /\ get_momentum_signal(bot_configurations[engine_call.bot_id].settings,
                               engine_call.mk.momentum) \in {"BUY", "SELL"}
        /\ trade_history = << >>


(***************************************************************************)
(* Properties of the order parameters.                                     *)
(***************************************************************************)
\* The call names a quote quantity that applies: it is a MARKET BUY.
QuoteSizingApplies(a) ==
    a.quote_order_qty # None /\ a.side = "BUY" /\ a.order_type = "MARKET"

\* C29: every order request execute_trade submits carries exactly one of base
\* quantity and quote quantity; quote sizing is used only for a MARKET BUY;
\* and a call that gives neither a quantity nor an applicable quote quantity
\* is rejected before submission.
C29_ExactlyOneQuantity ==
    \A o \in xout :
        /\ \A p \in o.params :
               /\ (p.quantity = None) # (p.quoteOrderQty = None)
               /\ p.quoteOrderQty # None => p.type = "MARKET" /\ p.side = "BUY"
        /\ (xin.a.quantity = None /\ ~QuoteSizingApplies(xin.a)) =>
               o.params = None /\ o.records = << >>

\* A MARKET BUY that named both quantities was submitted with the base
\* quantity alone.
C29_Witness ==
    \E o \in xout :
        /\ xin.a.quantity # None
        /\ QuoteSizingApplies(xin.a)
        /\ o.params # None
        /\ The(o.params).quoteOrderQty = None

\* The tick size the call found for its symbol (None when the rules carry no
\* PRICE_FILTER).
TickSizeOf(o) == o.cache[Upper(xin.a.symbol)].tickSize

ResponseOf(o) == OrderResponse(The(o.params), xin.e.order.order)

\* C31: the recorded fill of a successful order is, for a MARKET order with
\* reported fills, the quantity-weighted average fill price and the summed
\* fill quantity; for a MARKET order without fills, the reported executed
\* quantity and price; for a LIMIT order, the limit price of the request with
\* the reported executed quantity.
C31_RecordedFill ==
    \A o \in xout :
        \A i \in DOMAIN o.records :
            LET order == ResponseOf(o)
                rec == o.records[i]
            IN  IF xin.a.order_type = "LIMIT"
                THEN rec.price = The(The(o.params).price) /\ rec.quantity = order.executedQty
                ELSE IF order.fills # << >>
                THEN /\ rec.quantity = SumQty(order.fills)
                     /\ rec.price * SumQty(order.fills) <= SumCost(order.fills)
                     /\ SumCost(order.fills) < (rec.price + 1) * SumQty(order.fills)
                ELSE rec.price = order.price /\ rec.quantity = order.executedQty

\* The calls of the log for the symbol of call i, whatever the letter case.
SameSymbol(i) == {j \in DOMAIN info_log : Upper(info_log[j].symbol) = Upper(info_log[i].symbol)}

\* Call i got the symbol's rules.
GotRules(i) == info_log[i].info # None

\* C32: trading rules are fetched at most once per symbol: after a call of
\* get_symbol_info got the rules of a symbol (in any letter case), every later
\* call for it is answered without a gateway call and returns the same rules;
\* a call that failed or got nothing leaves nothing in the cache, and the next
\* call for the symbol asks the gateway again.
C32_RulesFetchedOnce ==
    \A i \in DOMAIN info_log :
        /\ \A j \in SameSymbol(i) :
               (i < j /\ GotRules(i)) =>
                   info_log[j].calls = 0 /\ info_log[j].info = info_log[i].info
        /\ (\A h \in SameSymbol(i) : h <= i => ~GotRules(h)) =>
               /\ info_log[i].calls = 1
               /\ (i = Len(info_log) => Upper(info_log[i].symbol) \notin DOMAIN symbol_info_cache)
        /\ GotRules(i) <=> (\E h \in SameSymbol(i) : h <= i /\ info_log[h].calls = 1 /\ GotRules(h))

\* A lookup that failed was tried again and got the rules, and a third call,
\* naming the symbol in the other letter case, was answered from the cache.
C32_Witness ==
    /\ Len(info_log) = 3
    /\ info_log[1].symbol = "btcusdt" /\ info_log[1].calls = 1 /\ ~GotRules(1)
    /\ info_log[2].symbol = "btcusdt" /\ info_log[2].calls = 1 /\ GotRules(2)
    /\ info_log[3].symbol = "BTCUSDT" /\ info_log[3].calls = 0
    /\ info_log[3].info = info_log[2].info


(***************************************************************************)
(* Further properties of the fan-out service.                              *)
(***************************************************************************)
\* C33: every message a listener receives from the upstream stream of a
\* symbol is broadcast to every subscriber registered for the symbol at that
\* moment; the listener drops no received message.
C33_EveryMessageBroadcast ==
    \A t \in TaskIds :
        /\ t \notin ignored
        /\ tpc[t] = "gather" =>
               /\ bcast[t].snapshot # {}
               /\ bcast[t].delivered \cup bcast[t].failed \cup bcast[t].pending
                      = bcast[t].snapshot

\* Task t is the listener the registry names for its symbol.
Registered(tasks, t) == \E s \in DOMAIN tasks : tasks[s] = t

\* C34: a listener task that terminates removes from the task registry only
\* its own entry: its termination never deletes the entry of another (newer)
\* listener, and every running listener is registered.
C34_FinallyRemovesOwnEntry ==
    [][\A t \in TaskIds :
          (~TaskDone(t) /\ tpc'[t] \in {"done_cancel", "done_error"}) =>
              /\ \A s \in DOMAIN binance_socket_tasks :
                     binance_socket_tasks[s] # t =>
                         s \in DOMAIN binance_socket_tasks'
                             /\ binance_socket_tasks'[s] = binance_socket_tasks[s]
              /\ \A u \in TaskIds :
                     (Running(u) /\ u # t /\ Registered(binance_socket_tasks, u)) =>
                         Registered(binance_socket_tasks', u)]_vars


\* C39: after any sequence of connect and disconnect calls the manager keeps
\* no symbol key mapped to an empty subscriber set, and disconnect is
\* idempotent: after a disconnect of a websocket, the same call again changes
\* nothing.
C39_NoEmptySubscriberSet ==
    /\ \A s \in DOMAIN active_connections : active_connections[s] # {}
    /\ \A c \in Clients, s \in Symbols :
           LET once == ManagerDisconnect(active_connections, c, s)
           IN  /\ ManagerDisconnect(once, c, s) = once
               /\ \A k \in DOMAIN once : once[k] # {}

\* The only subscriber of BTCUSDT was disconnected and the key is gone, while
\* ETHUSDT keeps two subscribers.
C39_Witness ==
    /\ "BTCUSDT" \notin DOMAIN active_connections
    /\ \E c \in Clients :
           wsOpen[c] /\ \A s \in DOMAIN active_connections : c \notin active_connections[s]
    /\ "ETHUSDT" \in DOMAIN active_connections
    /\ Cardinality(active_connections["ETHUSDT"]) = 2

\* C40: if the async exchange client cannot be obtained when a subscriber
\* needs a new listener, the handler closes that websocket with code 1011,
\* removes it from the subscriber set and registers no listener task, and it
\* leaves the subscribers and listeners of the other symbols as they are.
C40_ClientFailureClosesSubscriber ==
    [][\A c \in Clients :
          /\ (hpc[c] # "close" /\ hpc'[c] = "close") =>
                 UNCHANGED <<binance_socket_tasks, tpc, must_cancel>>
          /\ (hpc[c] = "close" /\ hpc'[c] # "close") =>
                 /\ hpc'[c] = "done"
                 /\ closeCode'[c] = 1011
                 /\ ~wsOpen'[c]
                 /\ \A s \in DOMAIN active_connections' : c \notin active_connections'[s]
                 /\ \A s \in Symbols \ {hsym[c]} :
                        BroadcastTargets(active_connections', s)
                            = BroadcastTargets(active_connections, s)
                 /\ BroadcastTargets(active_connections', hsym[c])
                        = BroadcastTargets(active_connections, hsym[c]) \ {c}
                 /\ UNCHANGED <<binance_socket_tasks, tpc, must_cancel>>
          /\ closeCode[c] = 1011 => hpc'[c] = "done" /\ tpc'[c] = "none"]_vars

\* A websocket was closed with 1011 and removed, while ETHUSDT keeps its
\* subscriber and its registered listener.
C40_Witness ==
    \E c \in Clients :
        /\ closeCode[c] = 1011
        /\ hpc[c] = "done"
        /\ tpc[c] = "none"
        /\ \A s \in DOMAIN active_connections : c \notin active_connections[s]
        /\ "ETHUSDT" \in DOMAIN active_connections
        /\ "ETHUSDT" \in DOMAIN binance_socket_tasks
        /\ Running(binance_socket_tasks["ETHUSDT"])

(***************************************************************************)
(* Further properties of the strategy engines.                             *)
(***************************************************************************)
\* C35: for every valid grid configuration (upper limit above the lower one,
\* 2 lines or more) and every price, get_grid_actions never returns both a
\* BUY and a SELL in the same evaluation.
C35_NeverBuyAndSell ==
    ~InvalidGridConfig(grid_config) =>
        \A i \in DOMAIN grid_evals :
            LevelsOf(grid_evals[i].actions, "BUY") = {}
                \/ LevelsOf(grid_evals[i].actions, "SELL") = {}

\* The frequency of a DCA call is none of hourly, daily, weekly.
UnsupportedFrequency ==
    \A f \in engine_call.config.frequency : f \notin DOMAIN PeriodHours

\* C36: when the configured DCA frequency is not one of hourly, daily,
\* weekly, the DCA engine never emits DCA_BUY, whatever last_investment_time
\* is, no previous investment included.
C36_NoBuyForUnknownFrequency ==
    \A r \in engine_result :
        (engine_call.fn = "get_dca_actions" /\ UnsupportedFrequency) =>
            "DCA_BUY" \notin ActionsOf(r.actions)

\* C37: the intent list get_dca_actions returns is never empty, holds HOLD
\* only as its sole element, holds TRAILING_STOP_SELL only as its sole
\* element, and never holds both DCA_BUY and SMART_DIP_BUY.
C37_DcaIntentListShape ==
    \A r \in engine_result :
        (engine_call.fn = "get_dca_actions" /\ ~r.raised) =>
            /\ r.actions # << >>
            /\ "HOLD" \in ActionsOf(r.actions) => Len(r.actions) = 1
            /\ "TRAILING_STOP_SELL" \in ActionsOf(r.actions) => Len(r.actions) = 1
            /\ ~ ({"DCA_BUY", "SMART_DIP_BUY"} \subseteq ActionsOf(r.actions))

\* A regular buy was due while the price was in a dip, with no stop firing:
\* the list holds the DCA_BUY alone.
C37_Witness ==
    \E r \in engine_result :
        /\ DcaEvaluated(r)
        /\ ~StopFires
        /\ InvestmentDue
        /\ DipFires
        /\ ActionsOf(r.actions) = {"DCA_BUY"}
        /\ Len(r.actions) = 1


(***************************************************************************)
(* Further properties of the tick.                                         *)
(***************************************************************************)
\* C38: every execution of run_active_bots_job closes the database session
\* it opened before it returns, on every path: no exchange client, a failure
\* while loading the configurations, errors of single bots, and normal
\* completion.
C38_SessionClosedOnReturn ==
    (job_pc = "idle" \/ \A i \in DOMAIN tick_runs : tick_runs[i].ended)
        => db_session = "closed"

\* A tick in which a bot failed and another placed an order has returned with
\* its session closed.
C38_Witness ==
    /\ job_pc = "idle"
    /\ tick_runs # << >>
    /\ \E i \in DOMAIN bot_log : bot_log[i].error
    /\ \E i \in DOMAIN bot_log : bot_log[i].executed
    /\ db_session = "closed"

====
